---- MODULE Spec2Model ----
(***************************************************************************)
(* Watermark placement and compositing engine of watermark-openapi.        *)
(*                                                                         *)
(* The repository holds two implementations of the engine:                 *)
(*   - ImageProcessorService            (modules/watermark, NestJS)        *)
(*   - StandaloneImageProcessorService  (adapters/standalone-services.ts,  *)
(*     the one app.ts and the Netlify handler instantiate)                 *)
(* Both are modelled.  Operators of the standalone adapter carry the       *)
(* prefix Standalone_, the others keep the method names of                 *)
(* ImageProcessorService.                                                  *)
(*                                                                         *)
(* Units.  ImageProcessorService computes with spacing / 2 and width / 2,  *)
(* which are not integers for odd operands.  Its coordinates x, y are      *)
(* therefore kept in HALF PIXELS (twice the JavaScript number), so that    *)
(* every value is an integer of the model and an odd value stands for a    *)
(* JavaScript number ending in .5.  The standalone adapter floors every    *)
(* quotient, so its coordinates top, left are kept in pixels.              *)
(***************************************************************************)
EXTENDS Integers, Sequences, FiniteSets, TLC

VARIABLES
    op,          \* which operation has acted in this invocation ("none" before)
    metadata,    \* [width, height] of the decoded source image
    frequency,   \* dto.frequency: [mode, position, margin_px, spacing_px]
    positions,   \* the point sequence returned by calculatePositions
    entry,       \* the entry point of the invocation: "none", "app" or "nest"
    pc,          \* the position of the invocation in its call chain
    image,       \* the uploaded source image file: "absent" or [length, bytes]
    dto,         \* the CreateWatermarkDto handed to the services
    overlay,     \* the watermark buffer createWatermark returned, or "none"
    composites,  \* the list handed to sharp's composite()
    steps,       \* the steps of the pipeline performed so far, in order
    failed,      \* the step that threw, or "none"
    result,      \* what processWatermark returned or threw
    response,    \* the HTTP response of the handler
    request,     \* the HTTP request the handler received
    calls        \* the frames of the calls made on one shared service instance

geomVars == <<op, metadata, frequency, positions>>
pipeVars == <<entry, pc, image, dto, overlay, composites, steps, failed, result, response>>
callVars == <<request, calls>>
vars == <<op, metadata, frequency, positions,
          entry, pc, image, dto, overlay, composites, steps, failed, result, response,
          request, calls>>

-----------------------------------------------------------------------------
(* Bounds of the model *)

\* image widths and heights 1..MaxDim are enumerated exhaustively
MaxDim == 45
\* spacing_px runs over MinSpacing..MinSpacing + SpacingSpan
SpacingSpan == 4
\* margin_px runs over 0..MarginSpan (plus the default and the maximum)
MarginSpan == 3
\* Single mode: widths and heights 1..MaxSingleDim (plus four larger canvases)
MaxSingleDim == 6
\* watermark texts of 0..MaxTextLen characters are enumerated exhaustively
MaxTextLen == 3
\* the number of calls made on one service instance
MaxCalls == 2

(* Program constants *)

\* @Min(20) spacing_px
MinSpacing == 20
\* @Max(2000) spacing_px
MaxSpacing == 2000
\* token.length < 20
MinTokenLength == 20
\* spacing_px?: number = 280
DefaultSpacing == 280
\* @Min(8) and @Max(512) font_size
MinFontSize == 8
MaxFontSize == 512
\* @Max(500) margin_px
MaxMargin == 500
\* frequency.margin_px || 24
DefaultMargin == 24

-----------------------------------------------------------------------------
(* The two implementations *)

Nest == "ImageProcessorService"
Standalone == "StandaloneImageProcessorService"

-----------------------------------------------------------------------------
(* JavaScript values *)

\* an optional number: <<>> is undefined, <<n>> is the number n
Undefined == <<>>
Some(n) == <<n>>

\* a || d for an optional number a: d when a is undefined or 0 (falsy)
OrDefault(a, d) == IF a = Undefined \/ a[1] = 0 THEN d ELSE a[1]

\* the JavaScript remainder a % b, b > 0: it takes the sign of the dividend
JsRem(a, b) == IF a >= 0 THEN a % b ELSE -((-a) % b)

\* Math.ceil(a / b) for a >= 0, b > 0
CeilDiv(a, b) == (a + b - 1) \div b

\* Math.round of a value given in half pixels (round half up), in pixels
RoundHalf(v) == (v + 1) \div 2

-----------------------------------------------------------------------------
(* ImageProcessorService: geometry (coordinates x, y in half pixels) *)

\* the inner loop  for (x = x0; x < limit; x += step) push({x: x + shift, y})
RECURSIVE ScanX(_, _, _, _, _)
ScanX(x, y, step, limit, shift) ==
    IF x < limit
    THEN <<[x |-> x + shift, y |-> y]>> \o ScanX(x + step, y, step, limit, shift)
    ELSE <<>>

\* for (y = spacing / 2; y < height; y += spacing)
\*   for (x = spacing / 2; x < width; x += spacing) positions.push({x, y})
RECURSIVE GridRows(_, _, _, _)
GridRows(y, spacing, width, height) ==
    IF y < 2 * height
    THEN ScanX(spacing, y, 2 * spacing, 2 * width, 0)
             \o GridRows(y + 2 * spacing, spacing, width, height)
    ELSE <<>>

\* a mutant: the scan starts at the cell border instead of the cell centre
calculateGridPositions_fromZero(spacing, width, height) ==
    LET RECURSIVE Rows(_)
        Rows(y) == IF y < 2 * height
                   THEN ScanX(0, y, 2 * spacing, 2 * width, 0) \o Rows(y + 2 * spacing)
                   ELSE <<>>
    IN  Rows(0)

\* a mutant: the scan starts at spacing instead of spacing / 2
calculateGridPositions_fromSpacing(spacing, width, height) ==
    LET RECURSIVE Rows(_)
        Rows(y) == IF y < 2 * height
                   THEN ScanX(2 * spacing, y, 2 * spacing, 2 * width, 0)
                            \o Rows(y + 2 * spacing)
                   ELSE <<>>
    IN  Rows(2 * spacing)

\* a mutant: a point is pushed only for a cell that lies on the canvas whole
calculateGridPositions_wholeCells(spacing, width, height) ==
    LET RECURSIVE Rows(_)
        Rows(y) == IF y + spacing <= 2 * height
                   THEN ScanX(spacing, y, 2 * spacing, 2 * width - spacing + 1, 0)
                            \o Rows(y + 2 * spacing)
                   ELSE <<>>
    IN  Rows(spacing)

calculateGridPositions(spacing, width, height) ==
    GridRows(spacing, spacing, width, height)

\* x + (Math.floor(y / spacing) % 2 === 0 ? 0 : offset), offset = spacing / 2
DiagonalShift(y, spacing) ==
    IF JsRem(y \div (2 * spacing), 2) = 0 THEN 0 ELSE spacing

\* for (y = -spacing; y < height + spacing; y += spacing)
\*   for (x = -spacing; x < width + spacing; x += spacing) positions.push(...)
RECURSIVE DiagonalRows(_, _, _, _)
DiagonalRows(y, spacing, width, height) ==
    IF y < 2 * (height + spacing)
    THEN ScanX(-2 * spacing, y, 2 * spacing, 2 * (width + spacing),
               DiagonalShift(y, spacing))
             \o DiagonalRows(y + 2 * spacing, spacing, width, height)
    ELSE <<>>

calculateDiagonalPositions(spacing, width, height) ==
    DiagonalRows(-2 * spacing, spacing, width, height)

\* the five anchors of the positions table
SinglePositionTable(margin, width, height) ==
    [top_left     |-> [x |-> 2 * margin,           y |-> 2 * margin],
     top_right    |-> [x |-> 2 * (width - margin), y |-> 2 * margin],
     bottom_left  |-> [x |-> 2 * margin,           y |-> 2 * (height - margin)],
     bottom_right |-> [x |-> 2 * (width - margin), y |-> 2 * (height - margin)],
     center       |-> [x |-> width,                y |-> height]]

calculateSinglePosition(freq, width, height) ==
    LET margin == OrDefault(freq.margin_px, DefaultMargin)
        position == IF freq.position = "undefined" THEN "bottom_right"
                    ELSE freq.position
        table == SinglePositionTable(margin, width, height)
    IN  IF position \in DOMAIN table THEN table[position] ELSE table.bottom_right

\* switch (frequency.mode); an undefined spacing_px makes every loop
\* comparison false (NaN), so that no point is pushed
calculatePositions(freq, width, height) ==
    CASE freq.mode = "single" ->
             <<calculateSinglePosition(freq, width, height)>>
      [] freq.mode = "grid" ->
             IF freq.spacing_px = Undefined THEN <<>>
             ELSE calculateGridPositions(freq.spacing_px[1], width, height)
      [] freq.mode = "diagonal_tile" ->
             IF freq.spacing_px = Undefined THEN <<>>
             ELSE calculateDiagonalPositions(freq.spacing_px[1], width, height)
      [] OTHER ->
             <<[x |-> 2 * (width - 100), y |-> 2 * (height - 100)]>>

\* positions.map(pos => ({left: Math.round(pos.x), top: Math.round(pos.y)}))
RoundPositions(ps) ==
    [i \in DOMAIN ps |-> [top |-> RoundHalf(ps[i].y), left |-> RoundHalf(ps[i].x)]]

-----------------------------------------------------------------------------
(* StandaloneImageProcessorService: geometry (coordinates top, left in pixels) *)

\* for (let x = 0; x < width; x += spacing) positions.push({top: y, left: x})
RECURSIVE Standalone_GridCols(_, _, _, _)
Standalone_GridCols(x, y, spacing, width) ==
    IF x < width
    THEN <<[top |-> y, left |-> x]>> \o Standalone_GridCols(x + spacing, y, spacing, width)
    ELSE <<>>

\* for (let y = 0; y < height; y += spacing)
RECURSIVE Standalone_GridRows(_, _, _, _)
Standalone_GridRows(y, spacing, width, height) ==
    IF y < height
    THEN Standalone_GridCols(0, y, spacing, width)
             \o Standalone_GridRows(y + spacing, spacing, width, height)
    ELSE <<>>

Standalone_calculateGridPositions(width, height, spacing) ==
    Standalone_GridRows(0, spacing, width, height)

\* Math.ceil(Math.sqrt(width * width + height * height) / spacing): the least
\* count with (count * spacing)^2 >= width^2 + height^2
Standalone_DiagonalCount(width, height, spacing) ==
    CHOOSE count \in 0..(width + height) :
        /\ (count * spacing) * (count * spacing) >= width * width + height * height
        /\ \A c \in 0..(count - 1) :
               (c * spacing) * (c * spacing) < width * width + height * height

\* the inner loop over j, with x = i * spacing - height and y = j * spacing
RECURSIVE Standalone_DiagonalInner(_, _, _, _, _, _)
Standalone_DiagonalInner(i, j, count, width, height, spacing) ==
    IF j < count
    THEN LET x == i * spacing - height
             y == j * spacing
             here == IF /\ x >= -spacing /\ x <= width + spacing
                        /\ y >= -spacing /\ y <= height + spacing
                     THEN <<[top |-> y, left |-> x]>>
                     ELSE <<>>
         IN  here \o Standalone_DiagonalInner(i, j + 1, count, width, height, spacing)
    ELSE <<>>

\* the outer loop over i
RECURSIVE Standalone_DiagonalOuter(_, _, _, _, _)
Standalone_DiagonalOuter(i, count, width, height, spacing) ==
    IF i < count
    THEN Standalone_DiagonalInner(i, 0, count, width, height, spacing)
             \o Standalone_DiagonalOuter(i + 1, count, width, height, spacing)
    ELSE <<>>

Standalone_calculateDiagonalPositions(width, height, spacing) ==
    Standalone_DiagonalOuter(0, Standalone_DiagonalCount(width, height, spacing),
                             width, height, spacing)

\* the nine anchors of the positions table; an unknown key gives undefined,
\* and  positions[position] || positions.center  then gives the centre
Standalone_calculateSinglePosition(width, height, pos) ==
    LET position == IF pos = "undefined" THEN "center" ELSE pos
        midTop == (height \div 2) - 30
        midLeft == (width \div 2) - 60
    IN  CASE position = "top-left"      -> <<[top |-> 20,          left |-> 20]>>
          [] position = "top-center"    -> <<[top |-> 20,          left |-> midLeft]>>
          [] position = "top-right"     -> <<[top |-> 20,          left |-> width - 120]>>
          [] position = "center-left"   -> <<[top |-> midTop,      left |-> 20]>>
          [] position = "center"        -> <<[top |-> midTop,      left |-> midLeft]>>
          [] position = "center-right"  -> <<[top |-> midTop,      left |-> width - 120]>>
          [] position = "bottom-left"   -> <<[top |-> height - 60, left |-> 20]>>
          [] position = "bottom-center" -> <<[top |-> height - 60, left |-> midLeft]>>
          [] position = "bottom-right"  -> <<[top |-> height - 60, left |-> width - 120]>>
          [] OTHER                      -> <<[top |-> midTop,      left |-> midLeft]>>

Standalone_calculatePositions(mode, imageWidth, imageHeight, freq) ==
    CASE mode = "single" ->
             Standalone_calculateSinglePosition(imageWidth, imageHeight, freq.position)
      [] mode = "grid" ->
             Standalone_calculateGridPositions(imageWidth, imageHeight,
                                               OrDefault(freq.spacing_px, 200))
      [] mode = "diagonal_tile" ->
             Standalone_calculateDiagonalPositions(imageWidth, imageHeight,
                                                   OrDefault(freq.spacing_px, 280))
      [] OTHER ->
             <<[top |-> imageHeight \div 2, left |-> imageWidth \div 2]>>

-----------------------------------------------------------------------------
(* Limits *)

\* parseInt(process.env.MAX_IMAGE_WIDTH || '4096'), upload.maxImageWidth
MAX_IMAGE_WIDTH == 4096
\* parseInt(process.env.MAX_IMAGE_HEIGHT || '4096'), upload.maxImageHeight
MAX_IMAGE_HEIGHT == 4096
\* parseInt(process.env.MAX_FILE_SIZE || '6291456')
MAX_FILE_SIZE == 6291456

-----------------------------------------------------------------------------
(* What a call returns or throws *)

Pending == [status |-> "pending", error |-> "none", buffer |-> Undefined, contentType |-> "none"]
Thrown(error) ==
    [status |-> "error", error |-> error, buffer |-> Undefined, contentType |-> "none"]
Returned(buffer, contentType) ==
    [status |-> "ok", error |-> "none", buffer |-> <<buffer>>, contentType |-> contentType]

\* an error thrown by sharp (decode, render, composite or encode)
CodecError == "sharp: processing failed"

-----------------------------------------------------------------------------
(* StandaloneFileUploadService *)

\* buffer[i] of a byte sequence, -1 standing for undefined (index past the end)
At(bytes, i) == IF i < Len(bytes) THEN bytes[i + 1] ELSE -1

\* buffer.slice(0, 8)
Slice8(bytes) == SubSeq(bytes, 1, IF Len(bytes) < 8 THEN Len(bytes) ELSE 8)

validateMagicNumbers(buffer) ==
    \/ At(buffer, 0) = 137 /\ At(buffer, 1) = 80 /\ At(buffer, 2) = 78 /\ At(buffer, 3) = 71
    \/ At(buffer, 0) = 255 /\ At(buffer, 1) = 216 /\ At(buffer, 2) = 255
    \/ At(buffer, 0) = 82 /\ At(buffer, 1) = 73 /\ At(buffer, 2) = 70 /\ At(buffer, 3) = 70

\* "ok", or the message of the Error validateFile throws
validateFile(buffer) ==
    IF buffer.length > MAX_FILE_SIZE THEN "File size exceeds maximum"
    ELSE IF ~validateMagicNumbers(Slice8(buffer.bytes))
         THEN "Invalid file type. Only JPEG, PNG, and WebP are allowed"
         ELSE "ok"

\* this.fileUpload.validateFile(imageBuffer) for an upload that may be
\* undefined: reading buffer.length of undefined throws a TypeError
validateUpload(file) ==
    IF file = Undefined THEN "Cannot read properties of undefined (reading 'length')"
    ELSE validateFile(file[1])

-----------------------------------------------------------------------------
(* StandaloneWatermarkService and StandaloneImageProcessorService: the steps
   of processWatermark *)

\* the type-specific validation of StandaloneWatermarkService.processWatermark
Standalone_validateType(d) ==
    IF d.type = "text" /\ d.text = "" THEN "Text is required for text watermark"
    ELSE IF d.type = "image" /\ d.wm_image_buffer = "null"
         THEN "Watermark image is required for image watermark"
         ELSE "ok"

\* the checks on the decoded metadata (width, height: 0 stands for a missing value)
Standalone_checkMetadata(width, height) ==
    IF width = 0 \/ height = 0 THEN "Invalid image metadata"
    ELSE IF width > MAX_IMAGE_WIDTH \/ height > MAX_IMAGE_HEIGHT
         THEN "Image dimensions exceed maximum"
         ELSE "ok"

\* createWatermark: which renderer runs, or the message of the Error thrown
\* before any rendering
Standalone_createWatermark(d) ==
    IF d.type = "text" THEN "text"
    ELSE IF d.wm_image_buffer = "null" THEN "Watermark image is required"
         ELSE "image"

\* the steps lines 47-64 enter for the points ps: the positions are computed
\* and the list is composited, with the watermarkBuffer of line 45
Standalone_placing(ps) == <<"positions", "composite">>

\* positions.map(pos => ({input: watermarkBuffer, top: pos.top, left: pos.left, blend: 'over'}))
Standalone_composites(ps, watermarkBuffer) ==
    [i \in DOMAIN ps |->
        [input |-> watermarkBuffer, top |-> ps[i].top, left |-> ps[i].left,
         blend |-> "over"]]

Standalone_getContentType(format) ==
    CASE format = "png"  -> "image/png"
      [] format = "jpeg" -> "image/jpeg"
      [] format = "webp" -> "image/webp"
      [] OTHER           -> "image/png"

\* the encoder the switch (format) selects: [format, quality]
Standalone_encoder(format) ==
    CASE format = "jpeg" -> [format |-> "jpeg", quality |-> <<95>>]
      [] format = "webp" -> [format |-> "webp", quality |-> <<95>>]
      [] OTHER           -> [format |-> "png", quality |-> <<>>]

\* lines 66-82: the format, the encode, and what processWatermark returns
Standalone_toBuffer(d, layers, encoded) ==
    LET format == IF d.output_format = "undefined" THEN "png" ELSE d.output_format
    IN  IF encoded
        THEN Returned([encoder |-> Standalone_encoder(format), composites |-> Len(layers)],
                      Standalone_getContentType(format))
        ELSE Thrown(CodecError)

-----------------------------------------------------------------------------
(* ImageProcessorService: the steps of processWatermark *)

\* validateImageDimensions rejecting only an image that exceeds both limits
validateImageDimensions_bothExceed(width, height) ==
    IF width > MAX_IMAGE_WIDTH /\ height > MAX_IMAGE_HEIGHT
    THEN "Image dimensions exceed maximum allowed"
    ELSE "ok"

validateImageDimensions_atLimit(width, height) ==
    IF width >= MAX_IMAGE_WIDTH \/ height >= MAX_IMAGE_HEIGHT
    THEN "Image dimensions exceed maximum allowed"
    ELSE "ok"

\* "ok", or the message of the Error validateImageDimensions throws
validateImageDimensions(width, height) ==
    IF width > MAX_IMAGE_WIDTH \/ height > MAX_IMAGE_HEIGHT
    THEN "Image dimensions exceed maximum allowed"
    ELSE "ok"

\* the checks between the decode and createWatermark
checkMetadata(width, height) ==
    IF width = 0 \/ height = 0 THEN "Invalid image metadata"
    ELSE validateImageDimensions(width, height)

\* createWatermark rendering the text of an image request that has no image
createWatermark_textFallback(d) ==
    IF d.type = "image" /\ d.wm_image_buffer # "null" THEN "image"
    ELSE IF d.text # "" /\ d.font # "" THEN "text"
         ELSE "Invalid watermark configuration"

\* createWatermark: which renderer runs, or the message of the Error thrown
createWatermark(d) ==
    IF d.type = "image" /\ d.wm_image_buffer # "null" THEN "image"
    ELSE IF d.type = "text" /\ d.text # "" /\ d.font # "" THEN "text"
         ELSE "Invalid watermark configuration"

\* the steps of lines 157-172 with the overlay rendered again for each point
processWatermark_placing_renderEach(ps) ==
    <<"positions">> \o [i \in DOMAIN ps |-> "createWatermark"] \o <<"composite">>

\* the steps lines 157-172 enter for the points ps: the positions are computed
\* and the list is composited; the overlay is the const of line 150, which no
\* placement renders again
processWatermark_placing(ps) == <<"positions", "composite">>

\* the composite list built from the points in reverse order
processWatermark_composites_reversed(ps, watermark) ==
    [i \in DOMAIN ps |->
        [input |-> watermark, top |-> RoundHalf(ps[Len(ps) + 1 - i].y),
         left |-> RoundHalf(ps[Len(ps) + 1 - i].x), blend |-> "over"]]

\* positions.map(pos => ({input: watermark, left: Math.round(pos.x), top: Math.round(pos.y), blend: 'over'}))
processWatermark_composites(ps, watermark) ==
    [i \in DOMAIN ps |->
        [input |-> watermark, top |-> RoundHalf(ps[i].y), left |-> RoundHalf(ps[i].x),
         blend |-> "over"]]

\* the encoder the switch (dto.output_format) selects: [format, quality]
formatOutput_encoder(d) ==
    CASE d.output_format = "jpeg" -> [format |-> "jpeg", quality |-> <<d.quality>>]
      [] d.output_format = "webp" -> [format |-> "webp", quality |-> <<d.quality>>]
      [] OTHER                    -> [format |-> "png", quality |-> <<>>]

\* formatOutput returning a Buffer although the codec failed
formatOutput_partial(d, layers, encoded) ==
    Returned([encoder |-> formatOutput_encoder(d), composites |-> Len(layers)], "none")

\* formatOutput: the Buffer processWatermark returns (it returns no content
\* type), or the error of the codec
formatOutput(d, layers, encoded) ==
    IF encoded
    THEN Returned([encoder |-> formatOutput_encoder(d), composites |-> Len(layers)],
                  "none")
    ELSE Thrown(CodecError)

-----------------------------------------------------------------------------
(* Text of a watermark: a string is the sequence of its characters *)

\* the entity references the two sanitizeText write
Amp  == <<"&", "a", "m", "p", ";">>
Lt   == <<"&", "l", "t", ";">>
Gt   == <<"&", "g", "t", ";">>
Quot == <<"&", "q", "u", "o", "t", ";">>
Num39 == <<"&", "#", "3", "9", ";">>
Apos == <<"&", "a", "p", "o", "s", ";">>

\* text.replace(/ch/g, by): every occurrence of ch, left to right
RECURSIVE ReplaceAll(_, _, _)
ReplaceAll(text, ch, by) ==
    IF text = <<>> THEN <<>>
    ELSE (IF Head(text) = ch THEN by ELSE <<Head(text)>>) \o ReplaceAll(Tail(text), ch, by)

\* text.trim(): the leading and the trailing white space removed
RECURSIVE TrimStart(_)
TrimStart(text) ==
    IF text # <<>> /\ Head(text) = " " THEN TrimStart(Tail(text)) ELSE text

RECURSIVE TrimEnd(_)
TrimEnd(text) ==
    IF text # <<>> /\ text[Len(text)] = " "
    THEN TrimEnd(SubSeq(text, 1, Len(text) - 1))
    ELSE text

trim(text) == TrimEnd(TrimStart(text))

\* sanitizeText leaving both quote characters as they are
sanitizeText_rawQuotes(text) ==
    ReplaceAll(ReplaceAll(ReplaceAll(text, "&", Amp), "<", Lt), ">", Gt)

\* ImageProcessorService.sanitizeText
sanitizeText(text) ==
    ReplaceAll(
        ReplaceAll(
            ReplaceAll(
                ReplaceAll(
                    ReplaceAll(text, "&", Amp),
                    "<", Lt),
                ">", Gt),
            "\"", Quot),
        "'", Num39)

\* StandaloneImageProcessorService.sanitizeText
Standalone_sanitizeText(text) ==
    trim(
        ReplaceAll(
            ReplaceAll(
                ReplaceAll(
                    ReplaceAll(
                        ReplaceAll(text, "<", <<>>),
                        ">", <<>>),
                    "&", Amp),
                "\"", Quot),
            "'", Apos))

-----------------------------------------------------------------------------
(* Fonts *)

\* watermark.availableFonts of the configuration, and the keys of the
\* standalone fontMap
AvailableFonts == {"NotoSansThai", "Roboto", "Inter"}

\* this.fontMap.has(fontName) ? fontName : 'Roboto'
fontFamily(fontName) == IF fontName \in AvailableFonts THEN fontName ELSE "Roboto"

\* property names every object literal inherits from Object.prototype
ObjectPrototypeKeys ==
    {"constructor", "toString", "toLocaleString", "valueOf", "hasOwnProperty",
     "isPrototypeOf", "propertyIsEnumerable", "__proto__"}

\* fontMap[font] of the object literal in getFontPath: an own property (a file
\* name), a property inherited from Object.prototype (a function or an
\* object), or undefined
Standalone_fontMap(font) ==
    CASE font = "NotoSansThai" -> [type |-> "string", value |-> "NotoSansThai-Regular.ttf"]
      [] font = "Roboto"       -> [type |-> "string", value |-> "Roboto-Regular.ttf"]
      [] font = "Inter"        -> [type |-> "string", value |-> "Inter-Regular.ttf"]
      [] font \in ObjectPrototypeKeys -> [type |-> "object", value |-> font]
      [] OTHER                 -> [type |-> "undefined", value |-> ""]

\* getFontPath: fontMap[font] || fontMap.Roboto, then path.join, which throws
\* a TypeError for an argument that is not a string
Standalone_getFontPath(font) ==
    LET own == Standalone_fontMap(font)
        fontFile == IF own.type = "undefined" THEN Standalone_fontMap("Roboto") ELSE own
    IN  IF fontFile.type = "string"
        THEN [threw |-> FALSE, dir |-> "../assets/fonts", file |-> fontFile.value]
        ELSE [threw |-> TRUE, dir |-> "../assets/fonts", file |-> ""]

-----------------------------------------------------------------------------
(* The overlay renderers.  opacity and wm_scale are kept in hundredths
   (18 stands for 0.18), an alpha byte is 0..255. *)

\* Math.round(a / b) for a >= 0, b > 0
RoundDiv(a, b) == (2 * a + b) \div (2 * b)

\* Math.round(opacity * 255)
AlphaByte(hundredths) == RoundDiv(hundredths * 255, 100)

\* sharp's resize(bw, bh, {fit: 'inside', withoutEnlargement}) of an nw x nh
\* image: the largest size within bw x bh that keeps the aspect ratio, the
\* native size when that would enlarge and enlargement is off
ResizeInside(nw, nh, bw, bh, withoutEnlargement) ==
    IF withoutEnlargement /\ nw <= bw /\ nh <= bh
    THEN [width |-> nw, height |-> nh]
    ELSE IF bw * nh <= bh * nw
         THEN [width |-> bw, height |-> RoundDiv(nh * bw, nw)]
         ELSE [width |-> RoundDiv(nw * bh, nh), height |-> bh]

\* what a renderer gives when sharp or path.join throws
RenderError == [kind |-> "error"]

\* ImageProcessorService.createImageWatermark; wm is the metadata of the
\* decoded watermark image
createImageWatermark(wm, targetWidth, targetHeight, scale, opacity) ==
    LET shortSide == IF targetWidth <= targetHeight THEN targetWidth ELSE targetHeight
        wmSize == RoundDiv(shortSide * scale, 100)
    IN  IF wmSize = 0 THEN RenderError
        ELSE LET size == ResizeInside(wm.width, wm.height, wmSize, wmSize, TRUE)
             IN  [kind |-> "image", width |-> size.width, height |-> size.height,
                  alpha |-> IF opacity # Undefined /\ opacity[1] < 100
                            THEN Some(AlphaByte(opacity[1])) ELSE Undefined]

\* ImageProcessorService.createTextWatermark: the attributes of the <text>
\* element
createTextWatermark(text, fontName, fontSize, color, opacity, angle) ==
    [kind |-> "text", text |-> sanitizeText(text), font |-> fontFamily(fontName),
     fontSize |-> fontSize, fill |-> color, opacity |-> opacity, rotate |-> angle]

\* StandaloneImageProcessorService.createTextWatermark
Standalone_createTextWatermark(d, imageWidth, imageHeight) ==
    LET fontPath == Standalone_getFontPath(IF d.font = "" THEN "Roboto" ELSE d.font)
    IN  IF fontPath.threw THEN RenderError
        ELSE [kind |-> "text", text |-> Standalone_sanitizeText(d.text),
              font |-> fontPath.file,
              fontSize |-> OrDefault(d.font_size, 36),
              fill |-> IF d.color = "" THEN "#000000" ELSE d.color,
              opacity |-> Some(OrDefault(d.opacity, 18)), rotate |-> Undefined]

\* StandaloneImageProcessorService.createImageWatermark, past the check of
\* wm_image_buffer; d.wm_image is the metadata of the decoded watermark image
Standalone_createImageWatermark(d, imageWidth, imageHeight) ==
    LET wm == d.wm_image
        maxWmWidth == imageWidth \div 5
        maxWmHeight == imageHeight \div 5
        size == IF 5 * wm.width > imageWidth \/ 5 * wm.height > imageHeight
                THEN ResizeInside(wm.width, wm.height, maxWmWidth, maxWmHeight, FALSE)
                ELSE [width |-> wm.width, height |-> wm.height]
    IN  IF size.width = 0 \/ size.height = 0 THEN RenderError
        ELSE [kind |-> "image", width |-> size.width, height |-> size.height,
              alpha |-> Some(AlphaByte(OrDefault(d.opacity, 18)))]

-----------------------------------------------------------------------------
(* Inputs of the geometry engine *)

Dims == 1..MaxDim
Spacings == MinSpacing..(MinSpacing + SpacingSpan)

\* the worked examples of the specification: 1000x1000 with spacing 250 and 200
ExampleTiles == {<<1000, 1000, 250>>, <<1000, 1000, 200>>}

\* <<width, height, spacing_px>> of a Grid or DiagonalTile request
TileInputs == (Dims \X Dims \X Spacings) \cup ExampleTiles

\* Position of frequency.dto.ts (both declarations)
NestPositions == {"top_left", "top_right", "bottom_left", "bottom_right", "center"}
StandalonePositions ==
    {"top-left", "top-center", "top-right", "center-left", "center",
     "center-right", "bottom-left", "bottom-center", "bottom-right"}
PositionInputs == NestPositions \cup StandalonePositions \cup {"undefined"}

MarginInputs ==
    {Undefined} \cup {Some(m) : m \in (0..MarginSpan) \cup {DefaultMargin, MaxMargin}}

SingleDims == (1..MaxSingleDim) \cup {161, 600, 800, 1000}

Frequency(mode, position, margin_px, spacing_px) ==
    [mode |-> mode, position |-> position,
     margin_px |-> margin_px, spacing_px |-> spacing_px]

\* <<width, height, frequency>> of every request the model enumerates
GeometryInputs ==
    {<<t[1], t[2], Frequency(mode, "undefined", Undefined, Some(t[3]))>> :
        t \in TileInputs, mode \in {"grid", "diagonal_tile"}}
    \cup {<<w, h, Frequency("single", p, m, Undefined)>> :
        w \in SingleDims, h \in SingleDims, p \in PositionInputs, m \in MarginInputs}
    \cup {<<w, h, Frequency(mode, "undefined", Undefined, Undefined)>> :
        w \in 1..MaxSingleDim, h \in 1..MaxSingleDim,
        mode \in {"grid", "diagonal_tile", "unknown"}}

-----------------------------------------------------------------------------
(* Inputs of the pipeline *)

\* the leading bytes of a PNG, JPEG, WebP (RIFF....WEBP), WAVE (RIFF....WAVE)
\* and GIF file
PngBytes  == <<137, 80, 78, 71, 13, 10, 26, 10>>
JpegBytes == <<255, 216, 255, 224>>
WebpBytes == <<82, 73, 70, 70, 0, 0, 0, 0, 87, 69, 66, 80>>
WaveBytes == <<82, 73, 70, 70, 0, 0, 0, 0, 87, 65, 86, 69>>
GifBytes  == <<71, 73, 70, 56, 57, 97>>

\* an uploaded buffer: its length and its leading bytes
Files ==
    {[length |-> l, bytes |-> b] :
        l \in {MAX_FILE_SIZE, MAX_FILE_SIZE + 1},
        b \in {PngBytes, JpegBytes, WebpBytes, WaveBytes, GifBytes}}
    \cup {[length |-> 0, bytes |-> <<>>]}

\* widths and heights sharp may report: 0 (no value), an ordinary size, the
\* limit and the limit plus one
PipeWidths == {0, 1000, MAX_IMAGE_WIDTH, MAX_IMAGE_WIDTH + 1}
PipeHeights == {0, 1000, MAX_IMAGE_HEIGHT, MAX_IMAGE_HEIGHT + 1}

\* what (await image.metadata()) gives: <<>> when sharp throws, else
\* <<width, height>>, both without a value or both with one
DecodeOutcomes(file) ==
    {<<>>} \cup (IF file.bytes \in {PngBytes, JpegBytes, WebpBytes, GifBytes}
                 THEN {<<0, 0>>} \cup ((PipeWidths \ {0}) \X (PipeHeights \ {0}))
                 ELSE {})

\* colours, as the sequences of their characters
White    == <<"#", "F", "F", "F", "F", "F", "F">>
ShortHex == <<"#", "F", "F", "F">>
Red      == <<"r", "e", "d">>

\* the kind, text, font and watermark image of a request
\* (wm_image_buffer: "null", an "image" sharp decodes, or "garbage")
\* (opacity in hundredths; font_size, color and quality with the defaults of
\* CreateWatermarkDto unless a request sets them)
Dto(type, text, font, wm, freq, format) ==
    [type |-> type, text |-> text, font |-> font, wm_image_buffer |-> wm,
     frequency |-> freq, output_format |-> format, quality |-> 90,
     opacity |-> Some(18), font_size |-> Some(32), color |-> Some(White)]

KindInputs ==
    {<<"text", "hello", "Roboto", "null">>, <<"text", "", "Roboto", "null">>,
     <<"text", "hello", "", "null">>, <<"text", "hello", "Roboto", "image">>,
     <<"image", "", "", "null">>, <<"image", "", "", "image">>,
     <<"image", "", "", "garbage">>, <<"image", "hello", "Roboto", "null">>}

PipeFrequencies ==
    {Frequency("single", "bottom_right", Some(DefaultMargin), Some(280)),
     Frequency("grid", "bottom_right", Some(DefaultMargin), Some(200)),
     Frequency("diagonal_tile", "bottom_right", Some(DefaultMargin), Some(200))}

\* quality: the limits 1 and 100, and 50
QualityInputs == {1, 50, 100}

\* the arguments of ImageProcessorService.processWatermark
NestDtos ==
    {Dto(k[1], k[2], k[3], k[4], f, o) :
        k \in KindInputs, f \in PipeFrequencies,
        o \in {"png", "jpeg", "webp", "undefined"}}
    \cup {[Dto("text", "hello", "Roboto", "null",
                Frequency("single", "bottom_right", Some(DefaultMargin), Some(280)), o)
            EXCEPT !.quality = q] :
            o \in {"png", "jpeg", "webp", "undefined"}, q \in QualityInputs}

\* an upload of the largest size accepted that starts like a PNG file
PngFile == [length |-> MAX_FILE_SIZE, bytes |-> PngBytes]

\* the multipart body of POST /watermark
\* (watermarkImage: "absent", a File that is an "image" or "garbage", or a
\* "string"; output_format and quality are fields the handler does not read)
AppBody(type, text, isTiled, tileGap, position, file, watermarkImage, format, quality) ==
    [type |-> type, text |-> text, isTiled |-> isTiled, tileGap |-> tileGap,
     position |-> position, image |-> file, watermarkImage |-> watermarkImage,
     output_format |-> format, quality |-> quality,
     opacity |-> Undefined, fontSize |-> Undefined, color |-> Undefined]

\* the bodies enumerated: every kind with every upload, every placement,
\* every output format with a quality, and a styling field in and out of the
\* range CreateWatermarkDto declares for it
AppBodies ==
    {AppBody(t, x, FALSE, Undefined, "undefined", f, w, "undefined", Undefined) :
        t \in {"text", "image"}, x \in {"", "hello"},
        f \in {Undefined} \cup {Some(file) : file \in Files},
        w \in {"absent", "image", "garbage", "string"}}
    \cup {AppBody("text", "hello", tiled, gap, p, Some(PngFile), "absent", "undefined",
                  Undefined) :
            tiled \in BOOLEAN, gap \in {Undefined, Some(250), Some(MaxSpacing + 1)},
            p \in {"undefined", "top-left"}}
    \cup {AppBody("text", "hello", FALSE, Undefined, "undefined", Some(PngFile), "absent",
                  f, q) :
            f \in {"undefined", "png", "jpeg", "webp"},
            q \in {Undefined} \cup {Some(v) : v \in QualityInputs}}
    \cup {[AppBody("text", "hello", FALSE, Undefined, "undefined", Some(PngFile), "absent",
                   "undefined", Undefined)
            EXCEPT !.opacity = o, !.fontSize = z, !.color = c] :
            o \in {Undefined, Some(100), Some(101)},
            z \in {Undefined, Some(MinFontSize - 1), Some(MaxFontSize)},
            c \in {Undefined, Some(White), Some(Red)}}

\* app.ts lines 53-106: the dto the handler builds from the body
AppDto(body) ==
    [Dto(body.type,
        IF body.type = "text" THEN body.text ELSE "",
        IF body.type = "text" THEN "Roboto" ELSE "",
        IF body.type = "image" /\ body.watermarkImage \in {"image", "garbage"}
            THEN body.watermarkImage ELSE "null",
        Frequency(IF body.isTiled THEN "grid" ELSE "single",
                  IF body.position = "undefined" THEN "center" ELSE body.position,
                  Undefined,
                  Some(IF body.tileGap = Undefined THEN 200 ELSE body.tileGap[1])),
        "png")
     EXCEPT !.opacity = IF body.opacity = Undefined THEN Some(50) ELSE body.opacity,
            !.font_size = IF body.type = "text" /\ body.fontSize # Undefined
                          THEN body.fontSize ELSE @,
            !.color = IF body.type = "text" /\ body.color # Undefined
                      THEN body.color ELSE @]

\* app.ts lines 94-104: the 400 responses of the handler, or "ok"
AppValidate(body) ==
    IF body.image = Undefined THEN "Image file (image) is required"
    ELSE IF body.type = "image" /\ body.watermarkImage = "absent"
         THEN "Watermark image (watermarkImage) is required for image type"
         ELSE "ok"

\* the Authorization header of a request, as far as the handlers look at it:
\* absent, or its first characters (scheme) and the length of what follows
\* (token): not a Bearer header, a Bearer token that is too short, and a
\* Bearer token of the least length accepted
AuthorizationHeaders ==
    {Undefined,
     Some([scheme |-> "Basic ", token |-> MinTokenLength]),
     Some([scheme |-> "Bearer ", token |-> MinTokenLength - 1]),
     Some([scheme |-> "Bearer ", token |-> MinTokenLength])}

\* the characters [0-9A-Fa-f]
HexDigits ==
    {"0", "1", "2", "3", "4", "5", "6", "7", "8", "9",
     "A", "B", "C", "D", "E", "F", "a", "b", "c", "d", "e", "f"}

\* @Matches(/^#[0-9A-Fa-f]{6}$/)
MatchesHexColor(color) ==
    /\ Len(color) = 7
    /\ color[1] = "#"
    /\ \A i \in 2..7 : color[i] \in HexDigits

\* the fields of the multipart form of the Netlify function, after
\* parseMultipartForm: frequency parsed from JSON, opacity by parseFloat,
\* font_size by parseInt, every other field the string received (a quality
\* received is [type |-> "string", value]); "undefined" and Undefined stand
\* for a field that was not sent
NetlifyFields(type, text, font, freq, opacity, font_size, color, format, quality) ==
    [type |-> type, text |-> text, font |-> font, frequency |-> freq,
     opacity |-> opacity, font_size |-> font_size, color |-> color,
     output_format |-> format, quality |-> quality]

\* a form that passes every check: a text watermark on a grid
PlainFields ==
    NetlifyFields("text", "hello", "Roboto", Frequency("grid", "undefined", Undefined, Some(200)),
                  Undefined, Undefined, Undefined, "undefined", Undefined)

\* the files of the form: image (absent, or a buffer busboy has cut at
\* MAX_FILE_SIZE) and wm_image
NetlifyFiles(file, wm) == [image |-> file, wm_image |-> wm]

NetlifyRequest(method, authorization, multipart, fields, files) ==
    [method |-> method, authorization |-> authorization, multipart |-> multipart,
     body |-> fields, files |-> files]

\* the requests enumerated: every method, header and content type; every
\* kind with every upload; every frequency; every styling; every format
NetlifyRequests ==
    {NetlifyRequest(m, a, c, PlainFields, NetlifyFiles(Some(PngFile), "absent")) :
        m \in {"POST", "OPTIONS", "GET"}, a \in AuthorizationHeaders, c \in BOOLEAN}
    \cup {NetlifyRequest("POST", Some([scheme |-> "Bearer ", token |-> MinTokenLength]), TRUE,
                         f, NetlifyFiles(Some(PngFile), "absent")) :
            f \in {[PlainFields EXCEPT !.frequency = Frequency(m, p, Undefined, g)] :
                        m \in {"single", "grid", "diagonal_tile", "bogus"},
                        p \in {"undefined", "top-left", "top_left"},
                        g \in {Undefined, Some(MinSpacing - 1), Some(200), Some(MaxSpacing),
                               Some(MaxSpacing + 1)}}
                \cup {[PlainFields EXCEPT !.opacity = o, !.font_size = z, !.color = c] :
                        o \in {Undefined, Some(0), Some(100), Some(101)},
                        z \in {Undefined, Some(7), Some(8), Some(512), Some(513)},
                        c \in {Undefined, Some(White), Some(ShortHex), Some(Red)}}
                \cup {[PlainFields EXCEPT !.output_format = o, !.quality = q] :
                        o \in {"undefined", "png", "jpeg", "webp", "gif"},
                        q \in {Undefined, Some([type |-> "string", value |-> 80])}}}
    \cup {NetlifyRequest("POST", Some([scheme |-> "Bearer ", token |-> MinTokenLength]), TRUE,
                         [PlainFields EXCEPT !.type = t, !.text = x], NetlifyFiles(f, w)) :
            t \in {"text", "image", "bogus"}, x \in {"undefined", "", "hello"},
            f \in {Undefined} \cup
                  {Some([length |-> MAX_FILE_SIZE, bytes |-> b]) : b \in {PngBytes, WaveBytes, GifBytes}},
            w \in {"absent", "image", "garbage"}}

\* authHeader && authHeader.startsWith('Bearer ') && token.length >= 20
Authorized(authorization) ==
    /\ authorization # Undefined
    /\ authorization[1].scheme = "Bearer "
    /\ authorization[1].token >= MinTokenLength

\* (await validate(dto)).length = 0: the decorators of CreateWatermarkDto and
\* FrequencyDto on the instance plainToInstance makes of the fields (a field
\* that was not sent keeps its default and passes)
validate(fields) ==
    /\ fields.type \in {"text", "image"}
    /\ fields.frequency.mode \in {"single", "grid", "diagonal_tile"}
    /\ fields.frequency.position \in StandalonePositions \cup {"undefined"}
    /\ \/ fields.frequency.margin_px = Undefined
       \/ fields.frequency.margin_px[1] \in 0..MaxMargin
    /\ \/ fields.frequency.spacing_px = Undefined
       \/ fields.frequency.spacing_px[1] \in MinSpacing..MaxSpacing
    /\ fields.type = "text" => (fields.text # "undefined" /\ fields.font # "undefined")
    /\ fields.font_size = Undefined \/ fields.font_size[1] \in MinFontSize..MaxFontSize
    /\ fields.color = Undefined \/ MatchesHexColor(fields.color[1])
    /\ fields.opacity = Undefined \/ fields.opacity[1] \in 0..100
    /\ fields.output_format \in {"undefined", "png", "jpeg", "webp"}
    /\ \/ fields.quality = Undefined
       \/ fields.quality[1].type = "number" /\ fields.quality[1].value \in 1..100

\* the dto of the Netlify function: plainToInstance(CreateWatermarkDto,
\* fields) with the defaults of the class, then wm_image_buffer
NetlifyDto(fields, files) ==
    [type |-> fields.type,
     text |-> IF fields.text = "undefined" THEN "" ELSE fields.text,
     font |-> IF fields.font = "undefined" THEN "" ELSE fields.font,
     wm_image_buffer |-> IF files.wm_image = "absent" THEN "null" ELSE files.wm_image,
     frequency |->
        Frequency(fields.frequency.mode,
                  IF fields.frequency.position = "undefined" THEN "bottom-right"
                  ELSE fields.frequency.position,
                  IF fields.frequency.margin_px = Undefined THEN Some(DefaultMargin)
                  ELSE fields.frequency.margin_px,
                  IF fields.frequency.spacing_px = Undefined THEN Some(DefaultSpacing)
                  ELSE fields.frequency.spacing_px),
     output_format |-> IF fields.output_format = "undefined" THEN "png"
                       ELSE fields.output_format,
     quality |-> IF fields.quality = Undefined THEN 90 ELSE fields.quality[1].value,
     opacity |-> IF fields.opacity = Undefined THEN Some(18) ELSE fields.opacity,
     font_size |-> IF fields.font_size = Undefined THEN Some(32) ELSE fields.font_size,
     color |-> IF fields.color = Undefined THEN Some(White) ELSE fields.color]

\* a response without a body, and the response that carries the image
EmptyResponse(status) == [status |-> status, body |-> "empty", error |-> "none", message |-> "none"]

NoResponse == [status |-> 0, body |-> "none", error |-> "none", message |-> "none"]
JsonResponse(status, error, message) ==
    [status |-> status, body |-> "json", error |-> error, message |-> message]
\* c.body(result.buffer, 200, {'Content-Type': result.contentType, ...})
ImageResponse(res) ==
    [status |-> 200, body |-> "image", error |-> "none", message |-> res.contentType]

\* the entry points that call StandaloneWatermarkService
StandaloneEntries == {"app", "netlify"}

-----------------------------------------------------------------------------
(* The state before an invocation *)

\* no request received
NoRequest == [method |-> "none", authorization |-> Undefined, body |-> "none"]

NoDto == Dto("none", "", "", "null",
             Frequency("none", "undefined", Undefined, Undefined), "undefined")

GeomIdle ==
    /\ op = "none"
    /\ metadata = [width |-> 0, height |-> 0]
    /\ frequency = Frequency("none", "undefined", Undefined, Undefined)
    /\ positions = <<>>

HandlerIdle ==
    /\ entry = "none"
    /\ pc = "idle"
    /\ image = Undefined
    /\ dto = NoDto
    /\ overlay = Undefined
    /\ composites = <<>>
    /\ steps = <<>>
    /\ failed = "none"
    /\ result = Pending
    /\ response = NoResponse
    /\ request = NoRequest

PipeIdle == HandlerIdle /\ calls = <<>>

-----------------------------------------------------------------------------
(* The geometry engine as a state machine: one call per behaviour *)

GeomInit == GeomIdle /\ PipeIdle

\* ImageProcessorService.calculatePositions(dto.frequency, width, height)
NestCalculatePositions ==
    /\ op = "none"
    /\ \E in \in GeometryInputs :
        /\ metadata' = [width |-> in[1], height |-> in[2]]
        /\ frequency' = in[3]
        /\ positions' = calculatePositions(in[3], in[1], in[2])
    /\ op' = Nest
    /\ UNCHANGED callVars
    /\ UNCHANGED pipeVars

\* StandaloneImageProcessorService.calculatePositions(mode, width, height, frequency)
StandaloneCalculatePositions ==
    /\ op = "none"
    /\ \E in \in GeometryInputs :
        /\ metadata' = [width |-> in[1], height |-> in[2]]
        /\ frequency' = in[3]
        /\ positions' = Standalone_calculatePositions(in[3].mode, in[1], in[2], in[3])
    /\ op' = Standalone
    /\ UNCHANGED callVars
    /\ UNCHANGED pipeVars

GeomNext == NestCalculatePositions \/ StandaloneCalculatePositions

GeomSpec == GeomInit /\ [][GeomNext]_vars

-----------------------------------------------------------------------------
(* The compositor as a state machine: one invocation per behaviour, one
   action per stretch of code between two awaits.  steps lists the steps the
   invocation has entered, failed names the step that threw. *)

\* throw new Error(error) out of the step named step
Throw(step, error) ==
    /\ failed' = step
    /\ result' = Thrown(error)
    /\ pc' = "thrown"

\* sharp renders the overlay or throws; a watermark image that is garbage
\* cannot be decoded
RenderOutcomes(kind, d) ==
    IF kind = "image" /\ d.wm_image_buffer = "garbage" THEN {FALSE} ELSE BOOLEAN

\* app.ts lines 47-107: the handler up to the call of watermarkService
AppPostWatermark ==
    /\ pc = "idle"
    /\ \E body \in AppBodies, authorization \in AuthorizationHeaders :
        /\ entry' = "app"
        /\ request' = [method |-> "POST", authorization |-> authorization, body |-> body]
        /\ image' = body.image
        /\ dto' = AppDto(body)
        /\ IF AppValidate(body) = "ok"
           THEN pc' = "service" /\ response' = response
           ELSE /\ pc' = "responded"
                /\ response' = JsonResponse(400, "VALIDATION_ERROR", AppValidate(body))
    /\ UNCHANGED calls
    /\ UNCHANGED <<geomVars, overlay, composites, steps, failed, result>>

\* StandaloneWatermarkService.processWatermark, lines 352-369
StandaloneWatermarkService_processWatermark ==
    /\ pc = "service"
    /\ IF validateUpload(image) # "ok"
       THEN /\ Throw("validateFile", validateUpload(image))
            /\ steps' = steps \o <<"validateFile">>
       ELSE IF Standalone_validateType(dto) # "ok"
            THEN /\ Throw("validateType", Standalone_validateType(dto))
                 /\ steps' = steps \o <<"validateFile", "validateType">>
            ELSE /\ pc' = "decode"
                 /\ steps' = steps \o <<"validateFile", "validateType">>
                 /\ UNCHANGED <<failed, result>>
    /\ UNCHANGED callVars
    /\ UNCHANGED <<geomVars, entry, image, dto, overlay, composites, response>>

\* StandaloneImageProcessorService.processWatermark, lines 33-42
Standalone_Metadata ==
    /\ pc = "decode" /\ entry \in StandaloneEntries
    /\ \E m \in DecodeOutcomes(image[1]) :
        IF m = <<>>
        THEN /\ Throw("decode", CodecError)
             /\ steps' = steps \o <<"decode">>
             /\ UNCHANGED metadata
        ELSE /\ metadata' = [width |-> m[1], height |-> m[2]]
             /\ steps' = steps \o <<"decode", "dimensionCheck">>
             /\ IF Standalone_checkMetadata(m[1], m[2]) # "ok"
                THEN Throw("dimensionCheck", Standalone_checkMetadata(m[1], m[2]))
                ELSE pc' = "create" /\ UNCHANGED <<failed, result>>
    /\ UNCHANGED callVars
    /\ UNCHANGED <<op, frequency, positions, entry, image, dto, overlay, composites,
                   response>>

\* line 45 and createWatermark, createTextWatermark, createImageWatermark
Standalone_CreateWatermark ==
    /\ pc = "create" /\ entry \in StandaloneEntries
    /\ LET kind == Standalone_createWatermark(dto)
       IN  IF kind \notin {"text", "image"}
           THEN /\ Throw("createWatermark", kind)
                /\ steps' = steps \o <<"createWatermark">>
                /\ UNCHANGED overlay
           ELSE \E rendered \in RenderOutcomes(kind, dto) :
                   /\ steps' = steps \o <<"createWatermark", "render">>
                   /\ IF rendered
                      THEN /\ overlay' = <<[kind |-> kind]>>
                           /\ pc' = "place"
                           /\ UNCHANGED <<failed, result>>
                      ELSE /\ Throw("render", CodecError)
                           /\ UNCHANGED overlay
    /\ UNCHANGED callVars
    /\ UNCHANGED <<geomVars, entry, image, dto, composites, response>>

\* lines 47-64: the positions and the composite list
Standalone_Composite ==
    /\ pc = "place" /\ entry \in StandaloneEntries
    /\ op' = Standalone
    /\ frequency' = dto.frequency
    /\ positions' = Standalone_calculatePositions(dto.frequency.mode, metadata.width,
                                                  metadata.height, dto.frequency)
    /\ composites' = Standalone_composites(positions', overlay[1])
    /\ steps' = steps \o Standalone_placing(positions')
    /\ pc' = "encode"
    /\ UNCHANGED callVars
    /\ UNCHANGED <<metadata, entry, image, dto, overlay, failed, result, response>>

\* lines 66-82: the output format and (await outputImage.toBuffer())
Standalone_Encode ==
    /\ pc = "encode" /\ entry \in StandaloneEntries
    /\ \E encoded \in BOOLEAN :
        /\ result' = Standalone_toBuffer(dto, composites, encoded)
        /\ failed' = IF encoded THEN failed ELSE "encode"
        /\ pc' = IF encoded THEN "returned" ELSE "thrown"
    /\ steps' = steps \o <<"encode">>
    /\ UNCHANGED callVars
    /\ UNCHANGED <<geomVars, entry, image, dto, overlay, composites, response>>

\* app.ts lines 109-120: the response for what watermarkService returned or threw
AppResponse(res) ==
    IF res.status = "ok"
    THEN ImageResponse(res)
    ELSE JsonResponse(500, "INTERNAL_SERVER_ERROR", res.error)

AppRespond ==
    /\ pc \in {"returned", "thrown"} /\ entry = "app"
    /\ response' = AppResponse(result)
    /\ pc' = "responded"
    /\ UNCHANGED callVars
    /\ UNCHANGED <<geomVars, entry, image, dto, overlay, composites, steps, failed, result>>

\* the buffers ImageProcessorService.processWatermark is called with
NestFiles == {[length |-> MAX_FILE_SIZE, bytes |-> b] : b \in {PngBytes, WaveBytes}}

\* ImageProcessorService.processWatermark, lines 139-147
Nest_Metadata ==
    /\ pc = "idle"
    /\ \E d \in NestDtos, f \in NestFiles :
        /\ entry' = "nest"
        /\ dto' = d
        /\ image' = <<f>>
        /\ \E m \in DecodeOutcomes(f) :
            IF m = <<>>
            THEN /\ Throw("decode", CodecError)
                 /\ steps' = steps \o <<"decode">>
                 /\ UNCHANGED metadata
            ELSE /\ metadata' = [width |-> m[1], height |-> m[2]]
                 /\ steps' = steps \o <<"decode", "dimensionCheck">>
                 /\ IF checkMetadata(m[1], m[2]) # "ok"
                    THEN Throw("dimensionCheck", checkMetadata(m[1], m[2]))
                    ELSE pc' = "create" /\ UNCHANGED <<failed, result>>
    /\ UNCHANGED callVars
    /\ UNCHANGED <<op, frequency, positions, overlay, composites, response>>

\* lines 149-155 and createWatermark, createImageWatermark, createTextWatermark
Nest_CreateWatermark ==
    /\ pc = "create" /\ entry = "nest"
    /\ LET kind == createWatermark(dto)
       IN  IF kind \notin {"text", "image"}
           THEN /\ Throw("createWatermark", kind)
                /\ steps' = steps \o <<"createWatermark">>
                /\ UNCHANGED overlay
           ELSE \E rendered \in RenderOutcomes(kind, dto) :
                   /\ steps' = steps \o <<"createWatermark", "render">>
                   /\ IF rendered
                      THEN /\ overlay' = <<[kind |-> kind]>>
                           /\ pc' = "place"
                           /\ UNCHANGED <<failed, result>>
                      ELSE /\ Throw("render", CodecError)
                           /\ UNCHANGED overlay
    /\ UNCHANGED callVars
    /\ UNCHANGED <<geomVars, entry, image, dto, composites, response>>

\* lines 157-172: the positions and the composite list
Nest_Composite ==
    /\ pc = "place" /\ entry = "nest"
    /\ op' = Nest
    /\ frequency' = dto.frequency
    /\ positions' = calculatePositions(dto.frequency, metadata.width, metadata.height)
    /\ composites' = processWatermark_composites(positions', overlay[1])
    /\ steps' = steps \o processWatermark_placing(positions')
    /\ pc' = "encode"
    /\ UNCHANGED callVars
    /\ UNCHANGED <<metadata, entry, image, dto, overlay, failed, result, response>>

\* line 175: return this.formatOutput(processedImage, dto)
Nest_FormatOutput ==
    /\ pc = "encode" /\ entry = "nest"
    /\ \E encoded \in BOOLEAN :
        /\ result' = formatOutput(dto, composites, encoded)
        /\ failed' = IF encoded THEN failed ELSE "encode"
        /\ pc' = IF encoded THEN "returned" ELSE "thrown"
    /\ steps' = steps \o <<"encode">>
    /\ UNCHANGED callVars
    /\ UNCHANGED <<geomVars, entry, image, dto, overlay, composites, response>>

\* lines 176-179: catch (error) { this.logger.error(...); throw error; }
Nest_Catch ==
    /\ pc = "thrown" /\ entry = "nest"
    /\ pc' = "rethrown"
    /\ UNCHANGED callVars
    /\ UNCHANGED <<geomVars, entry, image, dto, overlay, composites, steps, failed,
                   result, response>>

\* the Netlify function (part_005), from its first line to the call of
\* watermarkService.processWatermark
NetlifyHandler ==
    /\ pc = "idle"
    /\ \E req \in NetlifyRequests :
        /\ entry' = "netlify"
        /\ request' = req
        /\ IF req.method = "OPTIONS"
           THEN /\ response' = EmptyResponse(200)
                /\ pc' = "responded"
                /\ UNCHANGED <<dto, image>>
           ELSE IF req.method # "POST"
           THEN /\ response' = JsonResponse(405, "METHOD_NOT_ALLOWED", "Only POST method is allowed")
                /\ pc' = "responded"
                /\ UNCHANGED <<dto, image>>
           ELSE IF ~Authorized(req.authorization)
           THEN /\ response' = JsonResponse(401, "UNAUTHORIZED",
                                  IF req.authorization = Undefined
                                     \/ req.authorization[1].scheme # "Bearer "
                                  THEN "Missing or invalid authorization token"
                                  ELSE "Invalid JWT token")
                /\ pc' = "responded"
                /\ UNCHANGED <<dto, image>>
           ELSE IF ~req.multipart
           THEN /\ response' = JsonResponse(500, "INTERNAL_SERVER_ERROR",
                                            "Content-Type must be multipart/form-data")
                /\ pc' = "responded"
                /\ UNCHANGED <<dto, image>>
           ELSE IF ~validate(req.body)
           THEN /\ response' = JsonResponse(400, "VALIDATION_ERROR", "Invalid request parameters")
                /\ pc' = "responded"
                /\ UNCHANGED <<dto, image>>
           ELSE /\ dto' = NetlifyDto(req.body, req.files)
                /\ image' = req.files.image
                /\ pc' = "service"
                /\ UNCHANGED response
    /\ UNCHANGED calls
    /\ UNCHANGED <<geomVars, overlay, composites, steps, failed, result>>

\* part_005: the response for what watermarkService returned, or the catch
NetlifyRespond ==
    /\ pc \in {"returned", "thrown"} /\ entry = "netlify"
    /\ response' = AppResponse(result)
    /\ pc' = "responded"
    /\ UNCHANGED callVars
    /\ UNCHANGED <<geomVars, entry, image, dto, overlay, composites, steps, failed, result>>

\* HttpExceptionFilter.getErrorCode
getErrorCode(status) ==
    CASE status = 400 -> "BAD_REQUEST"
      [] status = 401 -> "UNAUTHORIZED"
      [] status = 403 -> "FORBIDDEN"
      [] status = 404 -> "NOT_FOUND"
      [] status = 413 -> "PAYLOAD_TOO_LARGE"
      [] status = 415 -> "UNSUPPORTED_MEDIA_TYPE"
      [] status = 429 -> "RATE_LIMIT_EXCEEDED"
      [] status = 500 -> "INTERNAL_ERROR"
      [] status = 501 -> "NOT_IMPLEMENTED"
      [] status = 503 -> "SERVICE_UNAVAILABLE"
      [] OTHER -> "UNKNOWN_ERROR"

\* the exception the filter catches when processWatermark rethrows: an Error
\* with a message and a stack
ErrorException(message) == [kind |-> "Error", message |-> message, stack |-> "stack"]

\* an HttpException of a status, with an object response (message and error
\* keys) or a string response
HttpException(status, isObject, message) ==
    [kind |-> "HttpException", status |-> status, isObject |-> isObject,
     message |-> message, stack |-> "stack"]

\* HttpExceptionFilter.catch: the status and the JSON object sent, where
\* development is process.env.NODE_ENV === 'development'
HttpExceptionFilter_catch(exception, development) ==
    LET status == IF exception.kind = "HttpException" THEN exception.status ELSE 500
        code == IF exception.kind = "HttpException" THEN getErrorCode(status)
                ELSE "INTERNAL_ERROR"
        message == IF exception.kind = "HttpException" THEN exception.message
                   ELSE IF exception.kind = "Error" /\ development THEN exception.message
                        ELSE "An unexpected error occurred"
        sent == [status |-> status, body |-> "json", code |-> code, message |-> message,
                 timestamp |-> "toISOString", path |-> "url"]
    IN  IF exception.kind = "HttpException" /\ exception.isObject /\ development
        THEN [k \in DOMAIN sent \cup {"details"} |->
                 IF k = "details" THEN "error" ELSE sent[k]]
        ELSE sent

\* what the filter may be handed besides the Error of processWatermark: the
\* HttpExceptions of the framework
FrameworkExceptions ==
    {HttpException(s, o, "message") : s \in {400, 413, 415, 418}, o \in BOOLEAN}

\* the exception filter answers for the error ImageProcessorService rethrew,
\* or for an HttpException raised around it
HttpExceptionFilter_Catch ==
    /\ pc = "rethrown" /\ entry = "nest"
    /\ \E development \in BOOLEAN,
          exception \in {ErrorException(result.error)} \cup FrameworkExceptions :
          response' = HttpExceptionFilter_catch(exception, development)
    /\ pc' = "filtered"
    /\ UNCHANGED callVars
    /\ UNCHANGED <<geomVars, entry, image, dto, overlay, composites, steps, failed, result>>

\* the messages of the errors handle(app) may throw to the wrapper
AdapterErrors == {"Invalid URL", "Cannot read properties of undefined (reading 'indexOf')"}

\* part_004, lines 51-61: the wrapper around handle(app) answers for an
\* error the adapter threw instead of returning the response of the route
HonoHandler_Catch ==
    /\ pc = "idle"
    /\ entry' = "wrapper"
    /\ \E m \in AdapterErrors, authorization \in AuthorizationHeaders :
          /\ request' = [method |-> "POST", authorization |-> authorization, body |-> "none"]
          /\ response' = [status |-> 500, body |-> "json", error |-> "Internal Server Error",
                          message |-> m, stack |-> "stack"]
    /\ pc' = "responded"
    /\ UNCHANGED calls
    /\ UNCHANGED <<geomVars, image, dto, overlay, composites, steps, failed, result>>

PipeInit == GeomIdle /\ PipeIdle

PipeNext ==
    \/ AppPostWatermark
    \/ StandaloneWatermarkService_processWatermark
    \/ Standalone_Metadata
    \/ Standalone_CreateWatermark
    \/ Standalone_Composite
    \/ Standalone_Encode
    \/ AppRespond
    \/ NetlifyHandler
    \/ NetlifyRespond
    \/ Nest_Metadata
    \/ Nest_CreateWatermark
    \/ Nest_Composite
    \/ Nest_FormatOutput
    \/ Nest_Catch
    \/ HttpExceptionFilter_Catch
    \/ HonoHandler_Catch

PipeSpec == PipeInit /\ [][PipeNext]_vars

-----------------------------------------------------------------------------
(* The overlay renderers as a state machine: one call per behaviour *)

\* the characters of the texts enumerated: a letter, white space, and the
\* characters with a meaning in markup
TextChars == {"a", " ", ";", "&", "<", ">", "\"", "'"}

\* every text of at most MaxTextLen characters
Texts == UNION {[1..n -> TextChars] : n \in 0..MaxTextLen}

\* opacity in hundredths: not given, 0, 0.01, the default 0.18, 0.5, 0.99, 1
OpacityInputs == {Undefined, Some(0), Some(1), Some(18), Some(50), Some(99), Some(100)}

\* wm_scale in hundredths: the limits 0.01 and 5, the default 0.2, 0.5 and 1
ScaleInputs == {1, 20, 50, 100, 500}

FontInputs ==
    AvailableFonts \cup {"", "Arial", "../../etc/passwd", "constructor", "toString", "__proto__"}

\* <<width, height>> of the target image and of the watermark image
TargetDims == {<<1000, 1000>>, <<800, 600>>, <<600, 800>>, <<40, 30>>}
WmDims == {<<100, 100>>, <<200, 100>>, <<64, 128>>, <<3000, 2000>>}

\* the fields of CreateWatermarkDto the renderers read
RenderDto(type, text, font, opacity, wm_scale, wm_image) ==
    [type |-> type, text |-> text, font |-> font, font_size |-> Some(32),
     color |-> "#FFFFFF", opacity |-> opacity, wm_scale |-> wm_scale, angle_deg |-> -30,
     wm_image |-> wm_image]

\* <<dto, width, height>> of every text rendering enumerated
TextRenderInputs ==
    {<<RenderDto("text", t, "Roboto", Some(18), 20, Undefined), 1000, 1000>> : t \in Texts}
    \cup {<<RenderDto("text", <<"a">>, f, Some(18), 20, Undefined), 1000, 1000>> :
            f \in FontInputs}
    \cup {<<RenderDto("text", <<"a">>, "Roboto", o, 20, Undefined), 1000, 1000>> :
            o \in OpacityInputs}

\* <<dto, width, height>> of every image rendering enumerated
ImageRenderInputs ==
    {<<RenderDto("image", <<>>, "", Some(18), c, [width |-> w[1], height |-> w[2]]),
       t[1], t[2]>> : c \in ScaleInputs, w \in WmDims, t \in TargetDims}
    \cup {<<RenderDto("image", <<>>, "", o, 20, [width |-> 100, height |-> 100]),
            1000, 1000>> : o \in OpacityInputs}

RenderInit == GeomIdle /\ PipeIdle

\* ImageProcessorService.createWatermark, the branch of createTextWatermark
\* (taken for a text and a font that are not empty)
NestCreateTextWatermark ==
    /\ op = "none"
    /\ \E in \in TextRenderInputs :
        /\ in[1].text # <<>> /\ in[1].font # ""
        /\ dto' = in[1]
        /\ metadata' = [width |-> in[2], height |-> in[3]]
        /\ overlay' = <<createTextWatermark(in[1].text, in[1].font, in[1].font_size,
                                            in[1].color, in[1].opacity, in[1].angle_deg)>>
    /\ op' = Nest
    /\ UNCHANGED <<frequency, positions, entry, pc, image, composites, steps, failed,
                   result, response, callVars>>

\* ImageProcessorService.createWatermark, the branch of createImageWatermark
NestCreateImageWatermark ==
    /\ op = "none"
    /\ \E in \in ImageRenderInputs :
        /\ dto' = in[1]
        /\ metadata' = [width |-> in[2], height |-> in[3]]
        /\ overlay' = <<createImageWatermark(in[1].wm_image, in[2], in[3],
                                             in[1].wm_scale, in[1].opacity)>>
    /\ op' = Nest
    /\ UNCHANGED <<frequency, positions, entry, pc, image, composites, steps, failed,
                   result, response, callVars>>

\* StandaloneImageProcessorService.createWatermark, dto.type === 'text'
StandaloneCreateTextWatermark ==
    /\ op = "none"
    /\ \E in \in TextRenderInputs :
        /\ dto' = in[1]
        /\ metadata' = [width |-> in[2], height |-> in[3]]
        /\ overlay' = <<Standalone_createTextWatermark(in[1], in[2], in[3])>>
    /\ op' = Standalone
    /\ UNCHANGED <<frequency, positions, entry, pc, image, composites, steps, failed,
                   result, response, callVars>>

\* StandaloneImageProcessorService.createWatermark, any other dto.type
StandaloneCreateImageWatermark ==
    /\ op = "none"
    /\ \E in \in ImageRenderInputs :
        /\ dto' = in[1]
        /\ metadata' = [width |-> in[2], height |-> in[3]]
        /\ overlay' = <<Standalone_createImageWatermark(in[1], in[2], in[3])>>
    /\ op' = Standalone
    /\ UNCHANGED <<frequency, positions, entry, pc, image, composites, steps, failed,
                   result, response, callVars>>

RenderNext ==
    \/ NestCreateTextWatermark
    \/ NestCreateImageWatermark
    \/ StandaloneCreateTextWatermark
    \/ StandaloneCreateImageWatermark

RenderSpec == RenderInit /\ [][RenderNext]_vars

-----------------------------------------------------------------------------
(* Concurrent invocations of StandaloneWatermarkService.processWatermark on
   the module-level instances of app.ts.  Each invocation has a frame: its
   arguments and the consts of the two processWatermark, which are locals of
   the call.  The services have readonly fields only.  An invocation runs
   from one await to the next; the invocations interleave at the awaits. *)

\* the arguments of a call and what its environment does: the decoded
\* metadata (<<>> when sharp throws), and whether the overlay render and the
\* encode succeed
ConcInput(d, file, decoded, rendered, encoded) ==
    [dto |-> d, image |-> file, decoded |-> decoded, rendered |-> rendered,
     encoded |-> encoded]

\* a text watermark on a grid, as png
PlainDto == NetlifyDto(PlainFields, NetlifyFiles(Some(PngFile), "absent"))

ConcInputs ==
    {ConcInput(PlainDto, Some(PngFile), <<1000, 1000>>, TRUE, TRUE),
     ConcInput([PlainDto EXCEPT !.output_format = "jpeg"], Some(PngFile), <<800, 600>>, TRUE, TRUE),
     ConcInput([PlainDto EXCEPT !.type = "image", !.wm_image_buffer = "image",
                                !.frequency.mode = "single"],
               Some(PngFile), <<1000, 1000>>, TRUE, TRUE),
     ConcInput([PlainDto EXCEPT !.type = "image"], Some(PngFile), <<1000, 1000>>, TRUE, TRUE),
     ConcInput(PlainDto, Some([length |-> MAX_FILE_SIZE, bytes |-> GifBytes]), <<1000, 1000>>,
               TRUE, TRUE),
     ConcInput(PlainDto, Some(PngFile), <<>>, TRUE, TRUE),
     ConcInput(PlainDto, Some(PngFile), <<MAX_IMAGE_WIDTH + 1, 1000>>, TRUE, TRUE),
     ConcInput(PlainDto, Some(PngFile), <<1000, 1000>>, FALSE, TRUE),
     ConcInput(PlainDto, Some(PngFile), <<1000, 1000>>, TRUE, FALSE)}

\* the frame of a call that has not started, and of a call just made
IdleFrame ==
    [pc |-> "idle", input |-> ConcInput(NoDto, Undefined, <<>>, FALSE, FALSE),
     metadata |-> [width |-> 0, height |-> 0], overlay |-> Undefined,
     positions |-> <<>>, composites |-> <<>>, result |-> Pending]

StartFrame(in) == [IdleFrame EXCEPT !.pc = "service", !.input = in]

\* a frame whose call has thrown
ThrownFrame(frame, error) == [frame EXCEPT !.pc = "thrown", !.result = Thrown(error)]

\* one stretch of the call, from one await to the next, as a function of the
\* frame of the call
Standalone_processWatermark_step(frame) ==
    LET d == frame.input.dto
    IN  CASE frame.pc = "service" ->
                IF validateUpload(frame.input.image) # "ok"
                THEN ThrownFrame(frame, validateUpload(frame.input.image))
                ELSE IF Standalone_validateType(d) # "ok"
                     THEN ThrownFrame(frame, Standalone_validateType(d))
                     ELSE [frame EXCEPT !.pc = "decode"]
          [] frame.pc = "decode" ->
                IF frame.input.decoded = <<>> THEN ThrownFrame(frame, CodecError)
                ELSE LET w == frame.input.decoded[1]
                         h == frame.input.decoded[2]
                     IN  IF Standalone_checkMetadata(w, h) # "ok"
                         THEN ThrownFrame([frame EXCEPT !.metadata = [width |-> w, height |-> h]],
                                          Standalone_checkMetadata(w, h))
                         ELSE [frame EXCEPT !.pc = "create",
                                            !.metadata = [width |-> w, height |-> h]]
          [] frame.pc = "create" ->
                IF Standalone_createWatermark(d) \notin {"text", "image"}
                THEN ThrownFrame(frame, Standalone_createWatermark(d))
                ELSE IF ~frame.input.rendered THEN ThrownFrame(frame, CodecError)
                     ELSE [frame EXCEPT !.pc = "place",
                                        !.overlay = <<[kind |-> Standalone_createWatermark(d)]>>]
          [] frame.pc = "place" ->
                LET ps == Standalone_calculatePositions(d.frequency.mode, frame.metadata.width,
                                                        frame.metadata.height, d.frequency)
                IN  [frame EXCEPT !.pc = "encode", !.positions = ps,
                                  !.composites = Standalone_composites(ps, frame.overlay[1])]
          [] frame.pc = "encode" ->
                [frame EXCEPT !.pc = IF frame.input.encoded THEN "returned" ELSE "thrown",
                              !.result = Standalone_toBuffer(d, frame.composites,
                                                             frame.input.encoded)]
          [] OTHER -> frame

\* every call reading the frame of the first call, as if the locals were
\* fields of the shared instance
OwnFrame_shared(frames, i) == [frames[1] EXCEPT !.input = frames[i].input]

\* the frame the i-th call reads: its own
OwnFrame(frames, i) == frames[i]

ConcInit ==
    /\ GeomIdle
    /\ HandlerIdle
    /\ calls = [i \in 1..MaxCalls |-> IdleFrame]

\* watermarkService.processWatermark(imageBuffer, dto) is called
ConcCall(i) ==
    /\ calls[i].pc = "idle"
    /\ \E in \in ConcInputs : calls' = [calls EXCEPT ![i] = StartFrame(in)]
    /\ UNCHANGED <<geomVars, entry, pc, image, dto, overlay, composites, steps, failed,
                   result, response, request>>

\* the call runs to its next await, or to its end
ConcStep(i) ==
    /\ calls[i].pc \notin {"idle", "returned", "thrown"}
    /\ calls' = [calls EXCEPT ![i] = Standalone_processWatermark_step(OwnFrame(calls, i))]
    /\ UNCHANGED <<geomVars, entry, pc, image, dto, overlay, composites, steps, failed,
                   result, response, request>>

ConcNext == \E i \in 1..MaxCalls : ConcCall(i) \/ ConcStep(i)

ConcSpec == ConcInit /\ [][ConcNext]_vars

-----------------------------------------------------------------------------
(* Repeated calls of calculatePositions on one service instance: a first
   call, then the same call again.  calls is the sequence of the calls made,
   each with its arguments and the point sequence it returned. *)

\* <<width, height, frequency>> of the calls repeated
TwiceInputs ==
    {<<w, h, Frequency(mode, "undefined", Undefined, Some(g))>> :
        w \in {1, 30, MaxDim}, h \in {1, 30, MaxDim},
        g \in {MinSpacing, MinSpacing + SpacingSpan}, mode \in {"grid", "diagonal_tile"}}
    \cup {<<161, 600, Frequency("single", p, m, Undefined)>> :
            p \in PositionInputs, m \in {Undefined, Some(0)}}

\* calculatePositions of the implementation impl on in = <<width, height, frequency>>
CalculatePositionsOf(impl, in) ==
    IF impl = Nest
    THEN calculatePositions(in[3], in[1], in[2])
    ELSE Standalone_calculatePositions(in[3].mode, in[1], in[2], in[3])

\* a later call appending its points to those of the call before, as if the
\* positions array were a field of the instance
NthCall_accumulating(n, impl, in) ==
    IF n = 1 THEN CalculatePositionsOf(impl, in)
    ELSE CalculatePositionsOf(impl, in) \o CalculatePositionsOf(impl, in)

\* what the n-th call on an instance returns: the positions array is a local
\* of each call, and the methods read no field of the instance
NthCall(n, impl, in) == CalculatePositionsOf(impl, in)

\* the record of a call
CallRecord(impl, in, ps) == [impl |-> impl, in |-> in, positions |-> ps]

TwiceInit == GeomIdle /\ PipeIdle

\* the first call on an ImageProcessorService
NestFirstCall ==
    /\ calls = <<>>
    /\ \E in \in TwiceInputs : calls' = <<CallRecord(Nest, in, NthCall(1, Nest, in))>>
    /\ UNCHANGED <<geomVars, entry, pc, image, dto, overlay, composites, steps, failed,
                   result, response, request>>

\* the first call on a StandaloneImageProcessorService
StandaloneFirstCall ==
    /\ calls = <<>>
    /\ \E in \in TwiceInputs :
          calls' = <<CallRecord(Standalone, in, NthCall(1, Standalone, in))>>
    /\ UNCHANGED <<geomVars, entry, pc, image, dto, overlay, composites, steps, failed,
                   result, response, request>>

\* the same call again, on the same instance
RepeatCall ==
    /\ calls # <<>> /\ Len(calls) < MaxCalls
    /\ calls' = Append(calls, CallRecord(calls[1].impl, calls[1].in,
                                         NthCall(Len(calls) + 1, calls[1].impl, calls[1].in)))
    /\ UNCHANGED <<geomVars, entry, pc, image, dto, overlay, composites, steps, failed,
                   result, response, request>>

TwiceNext == NestFirstCall \/ StandaloneFirstCall \/ RepeatCall

TwiceSpec == TwiceInit /\ [][TwiceNext]_vars

-----------------------------------------------------------------------------
(* The loops of the standalone calculateGridPositions and
   calculateDiagonalPositions, one step per test of a loop condition, for the
   spacings a POST /watermark request can hand them.  Lengths and coordinates
   are in half pixels here, so that a spacing of 0.5 is the integer 1; calls
   holds the frame of the running function. *)

\* the largest canvas side, in pixels, of the calls with an unvalidated spacing
MaxTileDim == 2

\* the number of points after which the positions array can grow no further
\* and the engine aborts the call; no terminating call of the model has more
MaxPoints == 4 * MaxTileDim * MaxTileDim

\* the tileGap form fields enumerated: absent, empty, not numeric, zero,
\* negative, fractional and two ordinary values
TileGapFields == {"undefined", "", "abc", "0", "-20", "0.5", "20", "250"}

\* Number(field) in half pixels; <<>> stands for NaN, which is falsy
Number(field) ==
    CASE field = "0"   -> Some(0)
      [] field = "-20" -> Some(-40)
      [] field = "0.5" -> Some(1)
      [] field = "20"  -> Some(40)
      [] field = "250" -> Some(500)
      [] OTHER         -> Undefined

\* app.ts line 55: Number(body['tileGap'] || 200)
AppTileGap(field) == IF field \in {"undefined", ""} THEN Some(400) ELSE Number(field)

\* the frame of calculateGridPositions(width, height, spacing) at its entry
GridFrame(width, height, spacing) ==
    [fn |-> "calculateGridPositions", width |-> width, height |-> height,
     spacing |-> spacing, x |-> 0, y |-> 0]

\* the frame of calculateDiagonalPositions(width, height, spacing) at its entry
DiagonalFrame(width, height, spacing) ==
    [fn |-> "calculateDiagonalPositions", width |-> width, height |-> height,
     spacing |-> spacing, count |-> Standalone_DiagonalCount(width, height, spacing),
     i |-> 0, j |-> 0]

TileInit == GeomIdle /\ PipeIdle

\* app.ts lines 53-63 and 106-107 for isTiled = true, down to the call of
\* calculateGridPositions(imageWidth, imageHeight, frequency.spacing_px || 200)
AppTile ==
    /\ pc = "idle"
    /\ \E field \in TileGapFields, w \in 1..MaxTileDim, h \in 1..MaxTileDim :
          /\ request' = [method |-> "POST", authorization |-> Undefined,
                         body |-> [isTiled |-> TRUE, tileGap |-> field]]
          /\ metadata' = [width |-> w, height |-> h]
          /\ calls' = <<GridFrame(2 * w, 2 * h, OrDefault(AppTileGap(field), 400))>>
    /\ entry' = "app"
    /\ op' = Standalone
    /\ positions' = <<>>
    /\ pc' = "gridRows"
    /\ UNCHANGED <<frequency, image, dto, overlay, composites, steps, failed, result, response>>

\* the Netlify function with a spacing_px that has passed validate(dto), down
\* to the call of calculateGridPositions or calculateDiagonalPositions
NetlifyTile ==
    /\ pc = "idle"
    /\ \E mode \in {"grid", "diagonal_tile"}, w \in {1, MaxDim}, h \in {1, MaxDim},
          g \in {Undefined, Some(MinSpacing), Some(MinSpacing + SpacingSpan)} :
          /\ validate([PlainFields EXCEPT
                          !.frequency = Frequency(mode, "undefined", Undefined, g)]) = TRUE
          /\ request' = [method |-> "POST",
                         authorization |-> Some([scheme |-> "Bearer ", token |-> MinTokenLength]),
                         body |-> [mode |-> mode, spacing_px |-> g]]
          /\ metadata' = [width |-> w, height |-> h]
          /\ LET spacing == IF g = Undefined THEN DefaultSpacing ELSE g[1]
             IN  IF mode = "grid"
                 THEN /\ calls' = <<GridFrame(2 * w, 2 * h, 2 * spacing)>>
                      /\ pc' = "gridRows"
                 ELSE /\ calls' = <<DiagonalFrame(2 * w, 2 * h, 2 * spacing)>>
                      /\ pc' = "diagonalRows"
    /\ entry' = "netlify"
    /\ op' = Standalone
    /\ positions' = <<>>
    /\ UNCHANGED <<frequency, image, dto, overlay, composites, steps, failed, result, response>>

\* for (let y = 0; y < height; y += spacing): the test of y
GridLoopRows ==
    /\ pc = "gridRows"
    /\ IF calls[1].y < calls[1].height
       THEN /\ calls' = <<[calls[1] EXCEPT !.x = 0]>>
            /\ pc' = "gridCols"
       ELSE /\ pc' = "returned"
            /\ UNCHANGED calls
    /\ UNCHANGED <<geomVars, entry, image, dto, overlay, composites, steps, failed, result,
                   response, request>>

\* for (let x = 0; x < width; x += spacing) positions.push({top: y, left: x}):
\* the test of x, then the push and x += spacing, or y += spacing
GridLoopCols ==
    /\ pc = "gridCols"
    /\ IF calls[1].x < calls[1].width
       THEN IF Len(positions) < MaxPoints
            THEN /\ positions' = Append(positions, [top |-> calls[1].y, left |-> calls[1].x])
                 /\ calls' = <<[calls[1] EXCEPT !.x = @ + calls[1].spacing]>>
                 /\ UNCHANGED pc
            ELSE /\ pc' = "exhausted"
                 /\ UNCHANGED <<positions, calls>>
       ELSE /\ calls' = <<[calls[1] EXCEPT !.y = @ + calls[1].spacing]>>
            /\ pc' = "gridRows"
            /\ UNCHANGED positions
    /\ UNCHANGED <<op, metadata, frequency, entry, image, dto, overlay, composites, steps,
                   failed, result, response, request>>

\* for (let i = 0; i < count; i++): the test of i
DiagonalLoopRows ==
    /\ pc = "diagonalRows"
    /\ IF calls[1].i < calls[1].count
       THEN /\ calls' = <<[calls[1] EXCEPT !.j = 0]>>
            /\ pc' = "diagonalCols"
       ELSE /\ pc' = "returned"
            /\ UNCHANGED calls
    /\ UNCHANGED <<geomVars, entry, image, dto, overlay, composites, steps, failed, result,
                   response, request>>

\* for (let j = 0; j < count; j++): the test of j, then the body and j++, or i++
DiagonalLoopCols ==
    /\ pc = "diagonalCols"
    /\ IF calls[1].j < calls[1].count
       THEN LET f == calls[1]
                x == f.i * f.spacing - f.height
                y == f.j * f.spacing
            IN  /\ positions' =
                      IF /\ x >= -f.spacing /\ x <= f.width + f.spacing
                         /\ y >= -f.spacing /\ y <= f.height + f.spacing
                      THEN Append(positions, [top |-> y, left |-> x])
                      ELSE positions
                /\ calls' = <<[f EXCEPT !.j = @ + 1]>>
                /\ UNCHANGED pc
       ELSE /\ calls' = <<[calls[1] EXCEPT !.i = @ + 1]>>
            /\ pc' = "diagonalRows"
            /\ UNCHANGED positions
    /\ UNCHANGED <<op, metadata, frequency, entry, image, dto, overlay, composites, steps,
                   failed, result, response, request>>

TileNext == AppTile \/ NetlifyTile \/ GridLoopRows \/ GridLoopCols \/ DiagonalLoopRows \/ DiagonalLoopCols

TileSpec == TileInit /\ [][TileNext]_vars

\* the handler and the loops run to completion on the one thread of the
\* runtime: a step that can be taken is taken
TileLiveSpec == TileSpec /\ WF_vars(TileNext)

-----------------------------------------------------------------------------
(* Vocabulary of the geometry claims *)

\* a tiling mode has acted on a defined spacing_px
GridActed == op # "none" /\ frequency.mode = "grid" /\ frequency.spacing_px # Undefined
DiagonalActed ==
    op # "none" /\ frequency.mode = "diagonal_tile" /\ frequency.spacing_px # Undefined
SingleActed == op # "none" /\ frequency.mode = "single"

SpacingPx == frequency.spacing_px[1]

\* the emitted points in half pixels, whichever implementation emitted them
Points ==
    IF op = Standalone
    THEN [i \in DOMAIN positions |->
             [x |-> 2 * positions[i].left, y |-> 2 * positions[i].top]]
    ELSE positions

\* the centre of the last cell along an axis of length d lies on the canvas
LastCellCentreInside(d) == d % SpacingPx = 0 \/ 2 * (d % SpacingPx) > SpacingPx

-----------------------------------------------------------------------------
(* C1 *)

-----------------------------------------------------------------------------
(* C2 *)

\* the number of lattice coordinates spacing/2 + i * spacing, i >= 0, below d
LatticeCount(d, spacing) ==
    Cardinality({i \in 0..d : spacing + 2 * i * spacing < 2 * d})

\* the lattice points (spacing/2 + i * spacing, spacing/2 + j * spacing) inside
\* [0, width) x [0, height), row-major, in half pixels
GridLattice(width, height, spacing) ==
    LET nx == LatticeCount(width, spacing)
        ny == LatticeCount(height, spacing)
    IN  [k \in 1..(nx * ny) |->
            [x |-> spacing + 2 * spacing * ((k - 1) % nx),
             y |-> spacing + 2 * spacing * ((k - 1) \div nx)]]

\* the worked example: 1000 x 1000 with spacing 250 gives 16 points whose
\* coordinates are 125 plus a multiple of 250
GridExample ==
    (metadata = [width |-> 1000, height |-> 1000] /\ SpacingPx = 250)
        => /\ Len(Points) = 16
           /\ \A i \in DOMAIN Points :
                  /\ Points[i].x >= 250 /\ (Points[i].x - 250) % 500 = 0
                  /\ Points[i].y >= 250 /\ (Points[i].y - 250) % 500 = 0

\* C2: the Grid point sequence is exactly the lattice points
\* (spacingPx/2 + i * spacingPx, spacingPx/2 + j * spacingPx) inside
\* [0, width) x [0, height), each once, row-major; 1000 x 1000 with spacing 250
\* gives 16 points at 125 plus a multiple of 250.
C2_GridLattice ==
    GridActed =>
        /\ Points = GridLattice(metadata.width, metadata.height, SpacingPx)
        /\ GridExample

\* C2 restricted to ImageProcessorService, where it holds.
C2_GridLattice_ImageProcessorService == (op = Nest) => C2_GridLattice

-----------------------------------------------------------------------------
(* C4 and C5 *)

Min(S) == CHOOSE m \in S : \A n \in S : m <= n

\* the y of the emitted rows, and the x emitted in the row at y (half pixels)
RowYs == {Points[i].y : i \in DOMAIN Points}
RowXs(y) == {Points[i].x : i \in {j \in DOMAIN Points : Points[j].y = y}}

\* floor(y / spacingPx) is odd, y in half pixels
OddRow(y) == (y \div (2 * SpacingPx)) % 2 = 1

\* C4: in DiagonalTile mode the x-coordinates of two vertically adjacent rows
\* (y and y + spacingPx, the row at y = -spacingPx included) differ by exactly
\* spacingPx / 2, the shifted rows being those with floor(y / spacingPx) odd.
C4_DiagonalStagger ==
    DiagonalActed =>
        /\ -2 * SpacingPx \in RowYs
        /\ \A y \in RowYs :
              /\ (Min(RowXs(y)) = -SpacingPx) <=> OddRow(y)
              /\ (Min(RowXs(y)) = -2 * SpacingPx) <=> ~OddRow(y)
              /\ (y + 2 * SpacingPx \in RowYs) =>
                    LET d == Min(RowXs(y + 2 * SpacingPx)) - Min(RowXs(y))
                    IN  /\ d \in {SpacingPx, -SpacingPx}
                        /\ RowXs(y + 2 * SpacingPx) = {x + d : x \in RowXs(y)}

\* C4 restricted to ImageProcessorService, where it holds.
C4_DiagonalStagger_ImageProcessorService == (op = Nest) => C4_DiagonalStagger

\* -spacing, 0, spacing, ... below limit + spacing, in half pixels
ScanLine(limit, spacing) ==
    {v \in {2 * spacing * (k - 1) : k \in 0..(limit \div spacing + 2)} :
        v < 2 * (limit + spacing)}

\* C5: DiagonalTile scans one spacingPx beyond every edge: the rows are
\* exactly y = -spacingPx, 0, spacingPx, ... while y < height + spacingPx, in
\* every row the unshifted x runs over -spacingPx, 0, spacingPx, ... while
\* x < width + spacingPx, and points lie beyond all four edges of the canvas.
C5_DiagonalOverscan ==
    DiagonalActed =>
        /\ RowYs = ScanLine(metadata.height, SpacingPx)
        /\ \A y \in RowYs :
              \E shift \in {0, SpacingPx} :
                  {x - shift : x \in RowXs(y)} = ScanLine(metadata.width, SpacingPx)
        /\ \A i, j \in DOMAIN Points :
              i < j => \/ Points[i].y < Points[j].y
                       \/ Points[i].y = Points[j].y /\ Points[i].x < Points[j].x
        /\ \E i \in DOMAIN Points : Points[i].y < 0
        /\ \E i \in DOMAIN Points : Points[i].y >= 2 * metadata.height
        /\ \E i \in DOMAIN Points : Points[i].x < 0
        /\ \E i \in DOMAIN Points : Points[i].x >= 2 * metadata.width

\* C5 restricted to ImageProcessorService, where it holds.
C5_DiagonalOverscan_ImageProcessorService == (op = Nest) => C5_DiagonalOverscan

-----------------------------------------------------------------------------
(* C3 *)

-----------------------------------------------------------------------------
(* C6 and C7 *)

\* the requested margin_px (the documented default when none is requested)
RequestedMargin ==
    IF frequency.margin_px = Undefined THEN DefaultMargin ELSE frequency.margin_px[1]

\* the anchors at the left, right, top and bottom edge
LeftAnchors   == {"top_left", "bottom_left", "top-left", "bottom-left"}
RightAnchors  == {"top_right", "bottom_right", "top-right", "bottom-right"}
TopAnchors    == {"top_left", "top_right", "top-left", "top-right"}
BottomAnchors == {"bottom_left", "bottom_right", "bottom-left", "bottom-right"}

\* the anchor names the acting implementation declares
OwnAnchors == IF op = Nest THEN NestPositions ELSE StandalonePositions

\* C6: for every marginPx in 0..500, 0 included, Single mode offsets a corner
\* anchor from its two edges by exactly the requested marginPx (top_left is
\* (marginPx, marginPx)); no other offset is ever used.
C6_SingleMargin ==
    (SingleActed /\ frequency.position \in OwnAnchors) =>
        LET p == Points[1]
            m == 2 * RequestedMargin
        IN  /\ frequency.position \in LeftAnchors   => p.x = m
            /\ frequency.position \in TopAnchors    => p.y = m
            /\ frequency.position \in RightAnchors  => p.x = 2 * metadata.width - m
            /\ frequency.position \in BottomAnchors => p.y = 2 * metadata.height - m

\* the canvas is larger than a 120 x 60 overlay plus twice the margin
LargeCanvas ==
    /\ metadata.width > 120 + 2 * RequestedMargin
    /\ metadata.height > 60 + 2 * RequestedMargin

\* what the acting implementation returns for another anchor, all else equal
SinglePointsFor(anchor) ==
    LET f == [frequency EXCEPT !.position = anchor]
    IN  IF op = Nest
        THEN calculatePositions(f, metadata.width, metadata.height)
        ELSE Standalone_calculatePositions(f.mode, metadata.width, metadata.height, f)

\* C7: Single mode returns exactly one point for each of the nine named
\* anchors, and on a canvas larger than the overlay plus twice the margin the
\* nine anchors give nine pairwise distinct points.
C7_NineAnchors ==
    (SingleActed /\ frequency.position \in StandalonePositions) =>
        /\ Len(positions) = 1
        /\ LargeCanvas =>
              \A other \in StandalonePositions \ {frequency.position} :
                  SinglePointsFor(other) # positions

-----------------------------------------------------------------------------
(* Vocabulary of the pipeline claims *)

\* the steps the invocation has entered
Entered == {steps[i] : i \in DOMAIN steps}

\* the invocation has ended: the handler has responded, or processWatermark
\* has returned or rethrown to its caller
Ended ==
    \/ entry \in StandaloneEntries /\ pc = "responded"
    \/ entry = "nest" /\ pc \in {"returned", "rethrown", "filtered"}

\* the invocation has ended in an error
EndedInError ==
    /\ Ended
    /\ IF entry \in StandaloneEntries THEN response.status \in {400, 500}
       ELSE result.status = "error"

\* the message of that error
EndError == IF entry \in StandaloneEntries THEN response.message ELSE result.error

\* no overlay has been rendered, nothing composited, nothing encoded
NothingRendered ==
    /\ Entered \cap {"render", "composite", "encode"} = {}
    /\ overlay = Undefined
    /\ composites = <<>>
    /\ result.buffer = Undefined

-----------------------------------------------------------------------------
(* C8 *)

ImageTooLarge == {"Image dimensions exceed maximum allowed", "Image dimensions exceed maximum"}

\* the decoded source image exceeds a limit
Oversized == metadata.width > MAX_IMAGE_WIDTH \/ metadata.height > MAX_IMAGE_HEIGHT

\* C8: when the decoded source image has width > maxWidth or height >
\* maxHeight, processWatermark fails with the image-too-large error before the
\* overlay renderer is invoked: no overlay render, no position computation, no
\* composite and no encode step occurs in that invocation.
C8_OversizeFailsFirst ==
    (entry # "none" /\ "decode" \in Entered /\ Oversized) =>
        /\ result.status = "error" /\ result.error \in ImageTooLarge
        /\ failed = "dimensionCheck"
        /\ Entered \cap {"createWatermark", "render", "positions", "composite", "encode"} = {}
        /\ NothingRendered
        /\ op = "none" /\ positions = <<>>
        /\ response.status # 200

\* C8 witness: ImageProcessorService has rethrown the image-too-large error for
\* an image one pixel wider than the limit and within the limit in height.
C8_Witness ==
    /\ entry = "nest" /\ pc = "rethrown"
    /\ metadata.width = MAX_IMAGE_WIDTH + 1 /\ metadata.height <= MAX_IMAGE_HEIGHT
    /\ result = Thrown("Image dimensions exceed maximum allowed")

-----------------------------------------------------------------------------
(* C9 *)

\* an Image-kind request without a watermark image
ImageKindWithoutWatermark ==
    entry # "none" /\ dto.type = "image" /\ dto.wm_image_buffer = "null"

\* the errors that report the missing watermark image
WatermarkRequired ==
    {"Watermark image (watermarkImage) is required for image type",
     "Watermark image is required for image watermark",
     "Watermark image is required",
     "Invalid watermark configuration"}

\* the errors raised by a validation of the request or of the source image
ValidationErrors ==
    WatermarkRequired \cup ImageTooLarge
    \cup {"Image file (image) is required", "File size exceeds maximum",
          "Invalid file type. Only JPEG, PNG, and WebP are allowed",
          "Text is required for text watermark", "Invalid image metadata"}

\* the source image has passed every check made on it so far
SourceAccepted ==
    /\ image # Undefined
    /\ failed \notin {"validateFile", "decode", "dimensionCheck"}

-----------------------------------------------------------------------------
(* C10 *)

\* the steps of a complete invocation
CompositorSteps ==
    {"decode", "dimensionCheck", "createWatermark", "render", "positions", "composite",
     "encode"}

\* C10: if any step (decode, dimension check, overlay render, composite,
\* encode) fails, the call ends with an error and returns no output bytes;
\* output bytes and a content type are returned only after every step has
\* succeeded.
C10_NoPartialOutput ==
    /\ failed # "none" =>
          /\ result.status = "error"
          /\ result.buffer = Undefined /\ result.contentType = "none"
          /\ response.body # "image" /\ response.status # 200
          /\ Ended => EndedInError
    /\ (result.buffer # Undefined \/ result.contentType # "none") =>
          /\ result.status = "ok" /\ failed = "none"
          /\ CompositorSteps \subseteq Entered
          /\ overlay # Undefined
          /\ Len(composites) = Len(positions)
          /\ entry \in StandaloneEntries =>
                result.contentType \in {"image/png", "image/jpeg", "image/webp"}
    /\ response.body = "image" =>
          /\ response.status = 200 /\ result.status = "ok"
          /\ response.message = result.contentType

\* C10 witness: the encode has failed after every earlier step succeeded, and
\* the handler has answered with an error and no image.
C10_Witness ==
    /\ entry = "app" /\ pc = "responded"
    /\ failed = "encode"
    /\ Len(composites) >= 1
    /\ response.status = 500 /\ response.body = "json"

-----------------------------------------------------------------------------
(* Vocabulary of the renderer claims *)

\* a renderer has acted and returned an overlay
Rendered == op # "none" /\ overlay # Undefined /\ overlay[1].kind \in {"text", "image"}

\* the opacity applied to the overlay: the opacity attribute of the <text>
\* element in hundredths, the alpha byte of the mask of an image
AppliedOpacity == IF overlay[1].kind = "text" THEN overlay[1].opacity ELSE overlay[1].alpha

-----------------------------------------------------------------------------
(* C11 *)

\* C11: for opacity = 0 the rendered overlay is fully transparent (the
\* opacity or alpha applied to it is 0) in Text and in Image mode; a requested
\* opacity of 0 is never replaced by another value.
C11_ZeroOpacity ==
    (Rendered /\ dto.opacity = Some(0)) => AppliedOpacity = Some(0)

\* C11 holds for ImageProcessorService.
C11_ZeroOpacity_ImageProcessorService == (op = Nest) => C11_ZeroOpacity

-----------------------------------------------------------------------------
(* C12 *)

\* an image overlay has been rendered
ImageRendered == Rendered /\ dto.type = "image" /\ overlay[1].kind = "image"

\* round(scale * min(targetWidth, targetHeight))
RequestedSize ==
    RoundDiv((IF metadata.width <= metadata.height THEN metadata.width ELSE metadata.height)
                * dto.wm_scale, 100)

\* the longest side of the watermark image and of the overlay
NativeLongest ==
    IF dto.wm_image.width >= dto.wm_image.height THEN dto.wm_image.width
    ELSE dto.wm_image.height
OverlayLongest ==
    IF overlay[1].width >= overlay[1].height THEN overlay[1].width ELSE overlay[1].height

\* the overlay has the aspect ratio of the watermark image, to the pixel
AspectPreserved ==
    IF dto.wm_image.width >= dto.wm_image.height
    THEN overlay[1].height = RoundDiv(dto.wm_image.height * overlay[1].width, dto.wm_image.width)
    ELSE overlay[1].width = RoundDiv(dto.wm_image.width * overlay[1].height, dto.wm_image.height)

\* C12: in Image mode, for every scale in 0.01..5.0, the watermark is resized
\* with its aspect ratio preserved so that its longest side equals
\* round(scale * min(targetWidth, targetHeight)), also when that is larger
\* than the native size of the watermark.
C12_ImageScale ==
    ImageRendered => (OverlayLongest = RequestedSize /\ AspectPreserved)

\* C12 holds for ImageProcessorService as long as the requested size does not
\* exceed the native size; a larger request leaves the watermark at its
\* native size.
C12_ImageScale_ImageProcessorService ==
    (ImageRendered /\ op = Nest) =>
        /\ AspectPreserved
        /\ OverlayLongest = (IF RequestedSize <= NativeLongest THEN RequestedSize
                             ELSE NativeLongest)

-----------------------------------------------------------------------------
(* C13 and C14 *)

\* the output format and the quality the caller asked for: the fields of the
\* request, or the dto handed to ImageProcessorService; png and the quality
\* of the dto when the request names none
RequestedFormat ==
    LET asked == IF entry = "nest" THEN dto.output_format ELSE request.body.output_format
    IN  IF asked = "undefined" THEN "png" ELSE asked

RequestedQuality ==
    IF entry = "app" /\ request.body.quality # Undefined THEN request.body.quality[1]
    ELSE dto.quality

\* processWatermark has returned the encoded image
Encoded == entry # "none" /\ result.status = "ok"

\* the encoder that produced the bytes
Encoder == result.buffer[1].encoder

\* C13: for output format JPEG or WEBP and every requested quality in 1..100
\* the encoder is invoked with exactly the requested quality; for PNG the
\* quality has no effect on the encode step.
C13_RequestedQuality ==
    Encoded =>
        /\ RequestedFormat \in {"jpeg", "webp"} => Encoder.quality = Some(RequestedQuality)
        /\ RequestedFormat = "png" => Encoder.quality = Undefined

\* C13 holds for ImageProcessorService.
C13_RequestedQuality_ImageProcessorService == (entry = "nest") => C13_RequestedQuality

\* the content type of a format
ContentTypeOf(format) ==
    CASE format = "png" -> "image/png"
      [] format = "jpeg" -> "image/jpeg"
      [] format = "webp" -> "image/webp"

\* C14: for a request asking for output_format png, jpeg or webp, the
\* returned bytes are encoded in that format and the returned content type
\* is image/png, image/jpeg or image/webp respectively.
C14_RequestedFormat ==
    (Encoded /\ entry \in StandaloneEntries) =>
        /\ Encoder.format = RequestedFormat
        /\ result.contentType = ContentTypeOf(RequestedFormat)
        /\ pc = "responded" => response.message = ContentTypeOf(RequestedFormat)

\* C14 holds for the requests of the Netlify function, and the content type
\* always agrees with the encoder.
C14_RequestedFormat_Netlify ==
    /\ entry = "netlify" => C14_RequestedFormat
    /\ (Encoded /\ entry \in StandaloneEntries) =>
          result.contentType = ContentTypeOf(Encoder.format)

-----------------------------------------------------------------------------
(* C15 *)

\* a text rendering has been asked for and has ended
TextAsked == op # "none" /\ overlay # Undefined /\ dto.type = "text"

\* the three bundled fonts: their families and their files
BundledFonts ==
    AvailableFonts \cup {"NotoSansThai-Regular.ttf", "Roboto-Regular.ttf", "Inter-Regular.ttf"}

\* C15: for every font identifier, also outside the whitelist, font
\* resolution yields one of the three bundled fonts (Roboto for an
\* unresolvable identifier); it never fails the request and never uses the
\* caller's string as part of a path.
C15_FontFallback ==
    TextAsked =>
        /\ overlay[1].kind = "text"
        /\ overlay[1].font \in BundledFonts
        /\ dto.font \notin AvailableFonts =>
              overlay[1].font \in {"Roboto", "Roboto-Regular.ttf"}

\* C15 holds for ImageProcessorService.
C15_FontFallback_ImageProcessorService == (op = Nest) => C15_FontFallback

-----------------------------------------------------------------------------
(* C16 *)

\* the entity references of the two sanitizeText
Entities == {Amp, Lt, Gt, Quot, Num39, Apos}

\* an entity reference starts at index i of the text
EntityAt(text, i) ==
    \E e \in Entities :
        /\ i + Len(e) - 1 <= Len(text)
        /\ SubSeq(text, i, i + Len(e) - 1) = e

\* C16: for every input text, the sanitized text embedded in the SVG markup
\* contains no raw less-than, greater-than, double-quote or apostrophe
\* character, and every ampersand in it is the start of an entity reference
\* written by sanitizeText.
C16_SanitizedText ==
    (Rendered /\ overlay[1].kind = "text") =>
        \A i \in DOMAIN overlay[1].text :
            /\ overlay[1].text[i] \notin {"<", ">", "\"", "'"}
            /\ overlay[1].text[i] = "&" => EntityAt(overlay[1].text, i)

\* C16 witness: ImageProcessorService has escaped a text made of an
\* ampersand, a quote and an opening angle bracket.
C16_Witness ==
    /\ Rendered /\ op = Nest
    /\ dto.text = <<"&", "\"", "<">>
    /\ overlay[1].text = Amp \o Quot \o Lt

-----------------------------------------------------------------------------
(* C17 *)

\* the frame a call ends with when it runs alone
RECURSIVE RunAlone(_)
RunAlone(frame) ==
    IF frame.pc \in {"returned", "thrown"} THEN frame
    ELSE RunAlone(Standalone_processWatermark_step(frame))

-----------------------------------------------------------------------------
(* C18 *)

-----------------------------------------------------------------------------
(* C19, C20 *)

\* a POST request has come in over HTTP without a valid Bearer header
UnauthorizedPost ==
    /\ entry \in StandaloneEntries
    /\ request.method = "POST"
    /\ ~Authorized(request.authorization)

\* C19: every POST /watermark request that lacks a valid Authorization:
\* Bearer header is rejected with status 401 before any file validation or
\* image processing starts.
C19_Unauthorized401 ==
    UnauthorizedPost =>
        /\ pc = "responded" /\ response.status = 401
        /\ steps = <<>> /\ NothingRendered

\* C19 for the Netlify function alone, whose handler checks the header
C19_Unauthorized401_Netlify ==
    (UnauthorizedPost /\ entry = "netlify") =>
        /\ pc = "responded" /\ response.status = 401
        /\ steps = <<>> /\ NothingRendered

\* the dto has been handed to watermarkService.processWatermark
HandedToCompositor ==
    /\ entry \in StandaloneEntries
    /\ pc = "service" \/ steps # <<>>

\* the ranges CreateWatermarkDto and FrequencyDto declare
ValidatedParameters ==
    /\ dto.frequency.spacing_px # Undefined
    /\ dto.frequency.spacing_px[1] \in MinSpacing..MaxSpacing
    /\ dto.opacity # Undefined /\ dto.opacity[1] \in 0..100
    /\ dto.font_size # Undefined /\ dto.font_size[1] \in MinFontSize..MaxFontSize
    /\ dto.color # Undefined /\ MatchesHexColor(dto.color[1])

\* C20: on every path from an HTTP request to the core, the parameters
\* handed to the compositor are already validated (spacing_px in 20..2000,
\* opacity in [0,1], font_size in 8..512, color a # and 6 hex digits); a
\* request that violates one of these never reaches the geometry or the
\* overlay rendering.
C20_ValidatedParameters == HandedToCompositor => ValidatedParameters

\* C20 for the Netlify function alone, whose handler awaits validate(dto)
C20_ValidatedParameters_Netlify ==
    (HandedToCompositor /\ entry = "netlify") => ValidatedParameters

-----------------------------------------------------------------------------
(* C21 *)

\* the keys of the JSON object a response carries: the fields of the object
\* the handler serialises (the response record without its status and the
\* kind of its body)
JsonKeys(res) == IF res.body = "json" THEN DOMAIN res \ {"status", "body"} ELSE {}

\* the value of a key of that object
JsonValue(res, key) == IF key \in JsonKeys(res) THEN res[key] ELSE "undefined"

\* a handler has answered with an error status
ErrorResponded ==
    entry \in StandaloneEntries /\ pc = "responded" /\ response.status >= 400

\* the answer reports an upload above the size limit or a decoded image above
\* the dimension limit
TooLargeResponded ==
    /\ ErrorResponded
    /\ \/ failed = "validateFile" /\ image # Undefined /\ image[1].length > MAX_FILE_SIZE
       \/ failed = "dimensionCheck" /\ Oversized

\* the answer reports an upload that is not a JPEG, PNG or WebP file
UnsupportedTypeResponded ==
    /\ ErrorResponded
    /\ failed = "validateFile" /\ image # Undefined /\ image[1].length <= MAX_FILE_SIZE

\* C21: every error response is a JSON object with a code and a message
\* field, with status 413 and code PAYLOAD_TOO_LARGE when the uploaded image
\* exceeds the size or dimension limit and status 415 and code
\* UNSUPPORTED_MEDIA_TYPE when the file is not a JPG/PNG/WebP image.
C21_ErrorResponses ==
    /\ ErrorResponded => {"code", "message"} \subseteq JsonKeys(response)
    /\ TooLargeResponded =>
          response.status = 413 /\ JsonValue(response, "code") = "PAYLOAD_TOO_LARGE"
    /\ UnsupportedTypeResponded =>
          response.status = 415 /\ JsonValue(response, "code") = "UNSUPPORTED_MEDIA_TYPE"

\* what the handlers do answer: a JSON object with an error and a message
\* key, and status 500 for every error thrown by the services
C21_ErrorResponses_AsCoded ==
    /\ ErrorResponded =>
          {"error", "message"} \subseteq JsonKeys(response) /\ "code" \notin JsonKeys(response)
    /\ (TooLargeResponded \/ UnsupportedTypeResponded) =>
          response.status = 500 /\ JsonValue(response, "error") = "INTERNAL_SERVER_ERROR"

-----------------------------------------------------------------------------
(* C22 *)

\* an HTTP response has been produced
HttpResponded == pc \in {"responded", "filtered"}

\* C22: no HTTP response produced by any handler or exception filter of the
\* service contains a stack trace of the failure, whatever error occurred
\* during processing.
C22_NoStackTrace == HttpResponded => "stack" \notin JsonKeys(response)

\* C22 for the routes and the exception filter, the wrapper of part_004
\* apart
C22_NoStackTrace_Routes ==
    (HttpResponded /\ entry # "wrapper") =>
        /\ "stack" \notin JsonKeys(response)
        /\ response.message # "stack"

-----------------------------------------------------------------------------
(* C23 *)

\* the leading bytes identify a PNG file (89 50 4E 47), a JPEG file (FF D8
\* FF) or a WebP file (RIFF, four bytes of length, WEBP)
IdentifiesImage(bytes) ==
    \/ At(bytes, 0) = 137 /\ At(bytes, 1) = 80 /\ At(bytes, 2) = 78 /\ At(bytes, 3) = 71
    \/ At(bytes, 0) = 255 /\ At(bytes, 1) = 216 /\ At(bytes, 2) = 255
    \/ /\ At(bytes, 0) = 82 /\ At(bytes, 1) = 73 /\ At(bytes, 2) = 70 /\ At(bytes, 3) = 70
       /\ At(bytes, 8) = 87 /\ At(bytes, 9) = 69 /\ At(bytes, 10) = 66 /\ At(bytes, 11) = 80

\* validateFile has been called on an uploaded buffer
FileValidated ==
    entry \in StandaloneEntries /\ "validateFile" \in Entered /\ image # Undefined

\* validateFile returned without throwing
FileAccepted == FileValidated /\ failed # "validateFile"

\* C23: validateFile accepts a buffer only if its length is at most
\* MAX_FILE_SIZE and its leading bytes identify a PNG, JPEG or WebP file;
\* every buffer of another file type (other RIFF containers included) or
\* above the size limit is rejected with an error before the image is
\* decoded.
C23_ValidateFile ==
    /\ FileAccepted =>
          image[1].length <= MAX_FILE_SIZE /\ IdentifiesImage(image[1].bytes)
    /\ (FileValidated /\ ~FileAccepted) =>
          result.status = "error" /\ "decode" \notin Entered

\* C23 with any RIFF container counted as an accepted type, as
\* validateMagicNumbers does
C23_ValidateFile_AnyRiff ==
    /\ FileAccepted =>
          /\ image[1].length <= MAX_FILE_SIZE
          /\ IdentifiesImage(image[1].bytes) \/ SubSeq(image[1].bytes, 1, 4) = <<82, 73, 70, 70>>
    /\ (FileValidated /\ ~FileAccepted) =>
          result.status = "error" /\ "decode" \notin Entered

-----------------------------------------------------------------------------
(* C24 *)

\* the composite operation c places its input at the point p
PlacedAt(c, p) ==
    IF op = Nest
    THEN c.left = RoundHalf(p.x) /\ c.top = RoundHalf(p.y)
    ELSE c.left = p.left /\ c.top = p.top

\* a 1000x1000 source with Grid spacing 200
Grid200On1000 ==
    /\ metadata = [width |-> 1000, height |-> 1000]
    /\ frequency.mode = "grid" /\ frequency.spacing_px = Some(200)

\* C24: the compositor performs exactly one composite operation per point
\* returned by the geometry engine, in the emitted order and all with the
\* same overlay bitmap; for a 1000x1000 source with Grid spacing 200 this is
\* exactly 25 composite operations.
C24_OneCompositePerPoint ==
    "composite" \in Entered =>
        /\ Len(composites) = Len(positions)
        /\ \A i \in DOMAIN composites :
              /\ composites[i].input = overlay[1]
              /\ PlacedAt(composites[i], positions[i])
        /\ Grid200On1000 => Len(composites) = 25

\* C24 witness: ImageProcessorService has composited a 5 x 5 grid on a
\* 1000x1000 source and returned the encoded image.
C24_Witness ==
    /\ entry = "nest" /\ pc = "returned" /\ result.status = "ok"
    /\ Grid200On1000
    /\ Len(composites) = 25
    /\ composites[2].left # composites[1].left

-----------------------------------------------------------------------------
(* C25 *)

\* how many times the step s was entered
TimesEntered(s) == Cardinality({i \in DOMAIN steps : steps[i] = s})

\* the invocation of processWatermark has succeeded
Succeeded == entry # "none" /\ result.status = "ok"

\* C25: in one successful invocation the overlay renderer (createWatermark)
\* is called exactly once, whatever the placement mode and however many
\* points the geometry engine returns.
C25_RenderOnce ==
    Succeeded =>
        /\ TimesEntered("createWatermark") = 1
        /\ TimesEntered("render") = 1

\* C25 witness: ImageProcessorService has succeeded with a diagonal tiling of
\* several points.
C25_Witness ==
    /\ Succeeded /\ entry = "nest"
    /\ frequency.mode = "diagonal_tile"
    /\ Len(composites) > 1
    /\ TimesEntered("createWatermark") = 1

-----------------------------------------------------------------------------
(* C26 *)

\* the dimension check has been made on a decoded image that has a width and
\* a height
DimensionsChecked ==
    /\ entry # "none" /\ "dimensionCheck" \in Entered
    /\ metadata.width >= 1 /\ metadata.height >= 1

\* C26: the dimension check rejects a decoded image exactly when width >
\* maxWidth or height > maxHeight: an image whose width equals maxWidth and
\* whose height equals maxHeight is accepted, and an image exceeding the
\* limit on only one axis is rejected.
C26_DimensionCheck ==
    DimensionsChecked =>
        /\ failed = "dimensionCheck" <=> Oversized
        /\ failed = "dimensionCheck" => result.error \in ImageTooLarge

\* C26 witness: ImageProcessorService has accepted an image of exactly the
\* maximum width and height and gone on to createWatermark.
C26_Witness ==
    /\ entry = "nest" /\ DimensionsChecked
    /\ metadata = [width |-> MAX_IMAGE_WIDTH, height |-> MAX_IMAGE_HEIGHT]
    /\ failed # "dimensionCheck"
    /\ "createWatermark" \in Entered

-----------------------------------------------------------------------------
(* C27 *)

\* the anchors Single mode centres along the x axis and along the y axis
XCentred == {"center", "top-center", "bottom-center"}
YCentred == {"center", "center-left", "center-right"}

\* the overlays the image renderer of the acting implementation makes for
\* the canvas, from the watermark images and scales enumerated
ActualOverlays ==
    {o \in {IF op = Nest
            THEN createImageWatermark([width |-> wm[1], height |-> wm[2]],
                                      metadata.width, metadata.height, c, Some(100))
            ELSE Standalone_createImageWatermark(
                     [wm_image |-> [width |-> wm[1], height |-> wm[2]],
                      opacity |-> Some(100)],
                     metadata.width, metadata.height) :
            wm \in WmDims, c \in ScaleInputs} :
        o.kind = "image"}

\* C27: for the center anchor, and along the centred axis of the four
\* edge-center anchors, Single mode centres the overlay: the returned
\* top-left coordinate on that axis is (canvas size - overlay size) / 2 for
\* the actual overlay width and height, independent of marginPx.
C27_SingleCentred ==
    SingleActed =>
        \A o \in ActualOverlays :
            /\ frequency.position \in XCentred => Points[1].x = metadata.width - o.width
            /\ frequency.position \in YCentred => Points[1].y = metadata.height - o.height

\* what the two implementations return on a centred axis, whatever the
\* margin and the overlay: ImageProcessorService the centre of the canvas,
\* the standalone adapter the coordinate that centres a 120 x 60 overlay
C27_SingleCentred_AsCoded ==
    (SingleActed /\ frequency.position \in OwnAnchors) =>
        /\ frequency.position \in XCentred =>
              Points[1].x = IF op = Nest THEN metadata.width
                            ELSE 2 * (metadata.width \div 2) - 120
        /\ frequency.position \in YCentred =>
              Points[1].y = IF op = Nest THEN metadata.height
                            ELSE 2 * (metadata.height \div 2) - 60

-----------------------------------------------------------------------------
(* C28 *)

\* the character an entity reference stands for
EntityChar(e) ==
    CASE e = Amp -> "&"
      [] e = Lt -> "<"
      [] e = Gt -> ">"
      [] e = Quot -> "\""
      [] OTHER -> "'"

\* the entity reference that starts the text, or <<>>
LeadingEntity(text) ==
    IF \E e \in Entities : Len(e) <= Len(text) /\ SubSeq(text, 1, Len(e)) = e
    THEN CHOOSE e \in Entities : Len(e) <= Len(text) /\ SubSeq(text, 1, Len(e)) = e
    ELSE <<>>

\* the text with its entity references decoded, left to right, once
RECURSIVE DecodeEntities(_)
DecodeEntities(text) ==
    IF text = <<>> THEN <<>>
    ELSE LET e == LeadingEntity(text)
         IN  IF e = <<>>
             THEN <<Head(text)>> \o DecodeEntities(Tail(text))
             ELSE <<EntityChar(e)>> \o DecodeEntities(SubSeq(text, Len(e) + 1, Len(text)))

\* C28: sanitizeText escapes rather than removes: each occurrence of the
\* ampersand, the angle brackets and the two quote characters is replaced by
\* its entity reference exactly once (no double escaping) and every other
\* character is kept, so that decoding the entity references of the
\* sanitized text gives back the original text.
C28_EscapesNotRemoves ==
    (Rendered /\ overlay[1].kind = "text") =>
        /\ DecodeEntities(overlay[1].text) = dto.text
        /\ Len(overlay[1].text) >= Len(dto.text)

\* C28 restricted to ImageProcessorService, where it holds.
C28_EscapesNotRemoves_ImageProcessorService == (op = Nest) => C28_EscapesNotRemoves

-----------------------------------------------------------------------------
(* C29 *)

\* a coordinate given in half pixels is a whole number of pixels
IsInteger(v) == v % 2 = 0

\* C29: every x and y coordinate emitted by the geometry engine is an
\* integer, for every width, height >= 1, marginPx in 0..500 and spacingPx in
\* 20..2000, odd spacingPx and odd width or height included.
C29_IntegerPoints ==
    op # "none" =>
        \A i \in DOMAIN Points : IsInteger(Points[i].x) /\ IsInteger(Points[i].y)

\* C29 restricted to the standalone adapter, where it holds.
C29_IntegerPoints_Standalone == (op = Standalone) => C29_IntegerPoints

\* where ImageProcessorService emits half pixels: on the centred axes of an
\* odd canvas, and in the grid and the shifted diagonal rows of an odd spacing
C29_IntegerPoints_ImageProcessorService ==
    (op = Nest /\ ~C29_IntegerPoints) =>
        \/ frequency.mode = "single" /\ frequency.position = "center"
           /\ (metadata.width % 2 = 1 \/ metadata.height % 2 = 1)
        \/ frequency.mode \in {"grid", "diagonal_tile"}
           /\ frequency.spacing_px # Undefined /\ frequency.spacing_px[1] % 2 = 1

-----------------------------------------------------------------------------
(* C30 *)

\* a position loop is running
TileRunning == pc \in {"gridRows", "gridCols", "diagonalRows", "diagonalCols"}

\* the position function has returned its list
TileReturned == pc = "returned" /\ Len(positions) <= MaxPoints

\* C30: Grid and DiagonalTile position generation terminates with a finite
\* point list for every spacing value that can reach it from a POST
\* /watermark request, i.e. for every numeric tileGap form field, zero,
\* negative, fractional and non-numeric values included.
C30_Terminates == <>TileReturned

\* C30 for the spacings that are positive when they reach the loops (zero,
\* absent and non-numeric fields are replaced by 200 on the way)
C30_Terminates_Positive == (TileRunning /\ calls[1].spacing > 0) ~> TileReturned

\* a negative spacing never returns: the loops run until the array can grow
\* no further
C30_NegativeNeverReturns ==
    (pc # "idle" /\ calls[1].spacing < 0) =>
        /\ pc # "returned"
        /\ calls[1].y = 0 /\ calls[1].x <= 0

====
